---- MODULE Spec2Model ----
(***************************************************************************)
(* State-machine model of the unit builder of the stk virtual machine      *)
(* (crates/stk/src/unit.rs): CompilationUnit, Assembly and LinkerErrors,   *)
(* of function values (crates/runestick/src/fn_ptr.rs), of the indexer     *)
(* (crates/rune/src/index.rs) and of the serialization of values           *)
(* (crates/stk/src/serde.rs).                                              *)
(*                                                                         *)
(* The operations of the source are operators on records (the unit after   *)
(* the call and the result of the call); the actions apply them to the     *)
(* state. The specifications share them:                                   *)
(*   Spec        the builder: assemblies with labels and jumps, lowering   *)
(*   SpecLink    the builder with calls, and the linker                    *)
(*   SpecIntern  the static string and object key tables                   *)
(*   SpecLabels  the label counter of two live assemblies                  *)
(*   SpecFnPtr   function values called by the host and by a machine       *)
(*   SpecIndex   the walk of the indexer over declarations and bodies      *)
(*   SpecImport  use declarations and the imports of the unit              *)
(*   SpecMod     inline modules and file modules                           *)
(*   SpecLet     let expressions, closures and captures                    *)
(*   SpecSerde   values serialized and deserialized                        *)
(*                                                                         *)
(* Indices follow the source: slots and instruction offsets are 0-based,   *)
(* so slot s of a Vec lives at position s + 1 of the TLA+ sequence.        *)
(***************************************************************************)
EXTENDS Integers, Sequences, FiniteSets, TLC

(***************************************************************************)
(* Bounds of the model.                                                    *)
(***************************************************************************)
\* Assemblies that may be alive (created, not yet lowered) at the same time.
MaxAsm == 1
\* Instructions held by the unit and the live assemblies together.
MaxInsts == 2
\* Cap of Assembly::label_count (labels created with new_label).
MaxLabelCount == 1
\* Number of distinct source spans handed to the builder.
NumSpans == 2
\* Number of new_function calls made on the unit.
MaxFnCalls == 3
\* Errors a LinkerErrors may hold when it is passed to link again.
MaxErrors == 2
\* Assemblies that may be alive at the same time in SpecLabels.
MaxAsmLabels == 2
\* Values on the stack of the running virtual machine.
MaxStack == 3
\* Arguments a function value declares, and a call supplies.
MaxArgs == 2
\* Call frames of the running virtual machine.
MaxFrames == 2
\* Nodes of the syntax tree the indexer walks, their nesting, and the fn
\* declarations among them.
MaxNodes == 4
MaxDepth == 3
MaxDecls == 3

(***************************************************************************)
(* Values.                                                                 *)
(***************************************************************************)
\* Source spans, identified by a number.
Span == 1..NumSpans

\* Item paths used as function paths.
Items == {<<"f">>, <<"g">>, <<"h">>}

\* Argument counts of registered functions.
ArgCounts == {0, 1}

\* Hash::function over Items: deterministic, and not injective (f and h
\* share a hash) so that hash conflicts occur.
HashFunction(path) ==
    CASE path = <<"f">> -> 1
      [] path = <<"g">> -> 2
      [] path = <<"h">> -> 1

\* The hashes of the function paths.
Hashes == {HashFunction(p) : p \in Items}

\* The hashes a Call instruction names: the functions above, and one that
\* no path of Items hashes to (a native function).
CallHashes == Hashes \cup {3}

\* The contents of static strings, and Hash::of over them: deterministic and
\* not injective ("a" and "c" share a hash).
Strings == {"a", "b", "c"}
HashOf(str) ==
    CASE str = "a" -> 1
      [] str = "b" -> 2
      [] str = "c" -> 1

\* Collections of object keys, and Hash::object_keys over them.
KeySets == {<<"a">>, <<"b">>, <<"a", "b">>}
HashObjectKeys(keys) ==
    CASE keys = <<"a">> -> 1
      [] keys = <<"b">> -> 2
      [] keys = <<"a", "b">> -> 1

\* The iteration order of a HashMap is not specified: it is fixed by the
\* hasher state of the map (its seed) and the keys it holds, and differs
\* from one map to another. Two orders are modelled.
Seeds == {0, 1}

RECURSIVE Ascending(_)
Ascending(S) ==
    IF S = {} THEN <<>>
    ELSE LET m == CHOOSE x \in S : \A y \in S : x <= y
         IN <<m>> \o Ascending(S \ {m})

RECURSIVE Descending(_)
Descending(S) ==
    IF S = {} THEN <<>>
    ELSE LET m == CHOOSE x \in S : \A y \in S : x >= y
         IN <<m>> \o Descending(S \ {m})

\* The keys of a map in the order its iterator yields them.
IterOrder(sd, keys) == IF sd = 0 THEN Ascending(keys) ELSE Descending(keys)

\* Label { name, ident }.
LabelNames == {"end"}
Label == [name : LabelNames, ident : 0..(MaxLabelCount - 1)]

\* A map (HashMap) is a function whose DOMAIN is its key set.
EmptyMap == <<>>

\* HashMap::insert: binds k to v, replacing an existing binding.
MapInsert(m, k, v) ==
    [x \in (DOMAIN m) \cup {k} |-> IF x = k THEN v ELSE m[x]]

\* HashMap::extend: every binding of the argument replaces the binding of
\* the same key in the receiver.
MapExtend(m, other) ==
    [x \in (DOMAIN m) \cup (DOMAIN other) |->
        IF x \in DOMAIN other THEN other[x] ELSE m[x]]

(***************************************************************************)
(* State.                                                                  *)
(***************************************************************************)
VARIABLES
    \* the CompilationUnit
    unit,
    \* the assemblies the caller holds, by handle
    asms,
    \* the labels the caller got from Assembly::new_label
    labels_out,
    \* history: the span supplied with each instruction pushed to the unit
    supplied,
    \* history: <<hash, span>> of every Call pushed into a lowered assembly
    lowered_calls,
    \* history: number of new_function calls made
    fn_calls,
    \* history: whether a new_function call has returned an error
    fn_failed,
    \* history: by hash, the signature of the new_function call that
    \* registered it (the first call of the hash)
    registered,
    \* history: <<table, content, result>> of every interning call made
    handed,
    \* the hasher state of the unit's required_functions map
    seed,
    \* the Context the unit is linked against: the hashes it resolves
    context,
    \* the LinkerErrors collection the caller holds
    errors,
    \* the running virtual machine (Vm)
    vm,
    \* the value the host holds from the last FnPtr::call
    value,
    \* the Indexer
    indexer,
    \* the walk of the syntax tree the indexer is making
    walk,
    \* the items the context and the unit have registered, which the
    \* processing of the imports reads
    names,
    \* the outcome of the last call
    ret

asm_vars == <<asms, labels_out>>
hist_vars == <<supplied, lowered_calls, fn_calls, fn_failed, registered, handed>>
link_vars == <<seed, context, errors>>
unit_vars == <<unit, asm_vars, hist_vars, link_vars>>
vm_vars == <<vm, value>>
\* What the unit builder never touches.
idx_vars == <<indexer, walk, names>>
other_vars == <<vm_vars, idx_vars>>
vars == <<unit_vars, other_vars, ret>>

\* Handles of the assemblies.
AsmIds == 1..MaxAsm

\* CompilationUnit::new
UnitNew ==
    [instructions |-> <<>>,
     imports |-> EmptyMap,
     functions |-> EmptyMap,
     functions_rev |-> EmptyMap,
     static_strings |-> <<>>,
     static_string_rev |-> EmptyMap,
     static_object_keys |-> <<>>,
     static_object_keys_rev |-> EmptyMap,
     debug |-> <<>>,
     label_count |-> 0,
     required_functions |-> EmptyMap]

\* Assembly::new
AssemblyNew(count) ==
    [labels |-> EmptyMap,
     labels_rev |-> EmptyMap,
     instructions |-> <<>>,
     label_count |-> count,
     required_functions |-> EmptyMap]

\* Vm::new: a machine over a context and a unit, at ip 0 with an empty stack
\* and no call frame. ran tells whether the machine has executed.
VmNew(ctx, u) ==
    [context |-> ctx, unit |-> u, ip |-> 0, stack |-> <<>>,
     stack_bottom |-> 0, call_frames |-> <<>>, ran |-> FALSE]

\* The running machine of the host, and no value held.
\* Indexer: the fields the walk of the declarations reads and writes; queue
\* is query.queue, indexed and meta are what Query::index (index_closure,
\* index_async_block) and insert_meta have recorded, err is the error the
\* walk returned with.
IndexerNew ==
    [items |-> <<>>, impl_items |-> <<>>, scopes |-> <<>>, queue |-> <<>>,
     indexed |-> <<>>, meta |-> {}, loaded |-> EmptyMap, sources |-> <<>>,
     err |-> "Ok"]

\* The walk of the syntax tree: the nodes whose indexing has begun and not
\* ended (the calls of index on the stack, with their local variables), the
\* number of fn declarations and of nodes met, and for each fn declaration,
\* in the order they begin, what the source says of it.
WalkNew == [open |-> <<>>, nodes |-> 0, decls |-> <<>>, ended |-> <<>>]

InitIndexer ==
    /\ indexer = IndexerNew
    /\ walk = WalkNew

\* Nothing is registered where no import is processed.
InitNames == names = [context |-> {}, unit |-> {}]

InitVm ==
    /\ vm = VmNew(1, 1)
    /\ value = [kind |-> "None"]

\* A new unit, no assembly, and a new LinkerErrors (LinkerErrors::new).
InitUnit ==
    /\ unit = UnitNew
    /\ asms = EmptyMap
    /\ labels_out = {}
    /\ supplied = <<>>
    /\ lowered_calls = {}
    /\ fn_calls = 0
    /\ fn_failed = FALSE
    /\ registered = EmptyMap
    /\ handed = {}
    /\ errors = <<>>
    /\ ret = [op |-> "new"]

\* The builder alone: no action of Spec reads the hasher state or the
\* context, which are those of a unit that is never linked.
Init ==
    /\ InitUnit
    /\ InitVm
    /\ InitIndexer
    /\ InitNames
    /\ seed = 0
    /\ context = {}

\* The builder and the linker: any hasher state, any context.
InitLink ==
    /\ InitUnit
    /\ InitVm
    /\ InitIndexer
    /\ InitNames
    /\ seed \in Seeds
    /\ context \in SUBSET CallHashes

(***************************************************************************)
(* Assembly operations.                                                    *)
(***************************************************************************)
\* Instructions held by the live assemblies.
RECURSIVE LiveLen(_, _)
LiveLen(m, ids) ==
    IF ids = {} THEN 0
    ELSE LET a == CHOOSE x \in ids : TRUE
         IN Len(m[a].instructions) + LiveLen(m, ids \ {a})

\* The bound on the instructions held.
HasRoom == Len(unit.instructions) + LiveLen(asms, DOMAIN asms) < MaxInsts

\* CompilationUnit::new_assembly: a new assembly starting at the unit's
\* label count. The handle is the smallest free one of ids.
NewAssemblyIn(ids) ==
    /\ \E a \in ids :
          /\ a \notin DOMAIN asms
          /\ \A b \in ids : b < a => b \in DOMAIN asms
          /\ asms' = MapInsert(asms, a, AssemblyNew(unit.label_count))
    /\ ret' = [op |-> "new_assembly"]
    /\ UNCHANGED <<unit, labels_out, hist_vars, link_vars,
                   other_vars>>

\* Assembly::new_label
NewLabel(a, name) ==
    /\ a \in DOMAIN asms
    /\ asms[a].label_count < MaxLabelCount
    /\ LET label == [name |-> name, ident |-> asms[a].label_count]
       IN /\ asms' = [asms EXCEPT ![a].label_count = @ + 1]
          /\ labels_out' = labels_out \cup {label}
          /\ ret' = [op |-> "new_label", label |-> label]
    /\ UNCHANGED <<unit, hist_vars, link_vars,
                   other_vars>>

\* Assembly::label: the insert into labels happens before the duplicate
\* check, so a duplicate label is rebound and labels_rev is left alone.
ApplyLabel(a, label) ==
    /\ a \in DOMAIN asms
    /\ label \in labels_out
    /\ LET asm == asms[a]
           offset == Len(asm.instructions)
       IN IF label \in DOMAIN asm.labels
          THEN /\ asms' = [asms EXCEPT
                              ![a].labels = MapInsert(asm.labels, label, offset)]
               /\ ret' = [op |-> "label", err |-> "DuplicateLabel"]
          ELSE /\ asms' = [asms EXCEPT
                              ![a].labels = MapInsert(asm.labels, label, offset),
                              ![a].labels_rev =
                                  MapInsert(asm.labels_rev, offset, label)]
               /\ ret' = [op |-> "label", err |-> "Ok"]
    /\ UNCHANGED <<unit, labels_out, hist_vars, link_vars,
                   other_vars>>

\* The push of a symbolic jump, as the assembly after it.
AsmJump(asm, kind, label, span) ==
    [asm EXCEPT !.instructions =
        Append(@, <<[kind |-> kind, label |-> label], span>>)]

PushJump(a, kind, label, span) ==
    /\ a \in DOMAIN asms
    /\ label \in labels_out
    /\ HasRoom
    /\ asms' = [asms EXCEPT ![a] = AsmJump(@, kind, label, span)]
    /\ ret' = [op |-> "push"]
    /\ UNCHANGED <<unit, labels_out, hist_vars, link_vars,
                   other_vars>>

\* Assembly::jump, Assembly::jump_if, Assembly::jump_if_not
Jump(a, label, span) == PushJump(a, "Jump", label, span)
JumpIf(a, label, span) == PushJump(a, "JumpIf", label, span)
JumpIfNot(a, label, span) == PushJump(a, "JumpIfNot", label, span)

\* The raw instructions the builder pushes: calls, and one that is no call.
RawInst == [op : {"Call"}, hash : CallHashes] \cup {[op |-> "Pop"]}

\* Assembly::push, as the assembly after it: a Call appends its span to the
\* entry of its hash in required_functions.
AsmPush(asm, raw, span) ==
    LET rf == asm.required_functions
        rf2 == IF raw.op = "Call"
               THEN MapInsert(rf, raw.hash,
                        Append(IF raw.hash \in DOMAIN rf
                               THEN rf[raw.hash] ELSE <<>>, span))
               ELSE rf
    IN [asm EXCEPT
           !.required_functions = rf2,
           !.instructions = Append(@, <<[kind |-> "Raw", raw |-> raw], span>>)]

Push(a, raw, span) ==
    /\ a \in DOMAIN asms
    /\ HasRoom
    /\ asms' = [asms EXCEPT ![a] = AsmPush(@, raw, span)]
    /\ ret' = [op |-> "push"]
    /\ UNCHANGED <<unit, labels_out, hist_vars, link_vars,
                   other_vars>>

(***************************************************************************)
(* Lowering.                                                               *)
(***************************************************************************)
\* translate_offset that computes the distance between the label and base
\* in unsigned arithmetic: the sign of a backward jump is lost.
translate_offset_unsigned(base, label, labels) ==
    IF label \in DOMAIN labels
    THEN [ok |-> TRUE,
          offset |-> IF labels[label] >= base
                     THEN labels[label] - base ELSE base - labels[label]]
    ELSE [ok |-> FALSE, label |-> label]

\* translate_offset: the signed offset of a label relative to base, or the
\* MissingLabel error.
translate_offset(base, label, labels) ==
    IF label \in DOMAIN labels
    THEN [ok |-> TRUE, offset |-> labels[label] - base]
    ELSE [ok |-> FALSE, label |-> label]

\* LowerOne with the debug record pushed before the offset is translated:
\* a missing label leaves a debug record without its instruction.
LowerOneDebugFirst(asm, pos, st) ==
    LET inst == asm.instructions[pos + 1][1]
        span == asm.instructions[pos + 1][2]
        label == IF pos \in DOMAIN asm.labels_rev
                 THEN <<asm.labels_rev[pos]>> ELSE <<>>
        comment == IF inst.kind = "Raw" THEN <<>> ELSE <<inst.label>>
        dbg == Append(st.debug,
                   [span |-> span, comment |-> comment, label |-> label])
    IN IF inst.kind = "Raw"
       THEN [ok |-> TRUE,
             instructions |-> Append(st.instructions, inst.raw),
             debug |-> dbg]
       ELSE IF inst.label \notin DOMAIN asm.labels
       THEN [ok |-> FALSE, instructions |-> st.instructions, debug |-> dbg]
       ELSE [ok |-> TRUE,
             instructions |-> Append(st.instructions,
                                 [op |-> inst.kind,
                                  offset |-> asm.labels[inst.label] - pos]),
             debug |-> dbg]

\* One iteration of the loop of add_assembly, for the instruction at 0-based
\* position pos of the assembly: the offset is translated first and its
\* error leaves the loop; then the instruction is pushed, then its debug
\* record. st holds the unit's instructions and debug.
LowerOne(asm, pos, st) ==
    LET inst == asm.instructions[pos + 1][1]
        span == asm.instructions[pos + 1][2]
        label == IF pos \in DOMAIN asm.labels_rev
                 THEN <<asm.labels_rev[pos]>> ELSE <<>>
    IN IF inst.kind = "Raw"
       THEN [ok |-> TRUE,
             instructions |-> Append(st.instructions, inst.raw),
             debug |-> Append(st.debug,
                          [span |-> span, comment |-> <<>>, label |-> label])]
       ELSE LET t == translate_offset(pos, inst.label, asm.labels)
            IN IF ~t.ok
               THEN [ok |-> FALSE,
                     instructions |-> st.instructions,
                     debug |-> st.debug]
               ELSE [ok |-> TRUE,
                     instructions |-> Append(st.instructions,
                                         [op |-> inst.kind, offset |-> t.offset]),
                     debug |-> Append(st.debug,
                                  [span |-> span,
                                   comment |-> <<inst.label>>,
                                   label |-> label])]

\* The loop of add_assembly from position pos on; stops at the first error.
RECURSIVE LowerFrom(_, _, _)
LowerFrom(asm, pos, st) ==
    IF pos >= Len(asm.instructions)
    THEN st
    ELSE LET next == LowerOne(asm, pos, st)
         IN IF next.ok THEN LowerFrom(asm, pos + 1, next) ELSE next

\* CompilationUnit::add_assembly, as the unit after it and whether it
\* succeeded: label_count and required_functions are set before the loop.
add_assembly(u, asm) ==
    LET low == LowerFrom(asm, 0,
                   [ok |-> TRUE, instructions |-> u.instructions,
                    debug |-> u.debug])
    IN [ok |-> low.ok,
        unit |-> [u EXCEPT
                     !.label_count = asm.label_count,
                     !.required_functions =
                         MapExtend(u.required_functions,
                                   asm.required_functions),
                     !.instructions = low.instructions,
                     !.debug = low.debug]]

\* CompilationUnit::new_function, as the unit after it and its result:
\* both inserts happen before the conflict check.
new_function(u, path, args, asm) ==
    LET offset == Len(u.instructions)
        hash == HashFunction(path)
        info == [offset |-> offset,
                 signature |-> [path |-> path, args |-> args]]
        u1 == [u EXCEPT
                  !.functions_rev = MapInsert(u.functions_rev, offset, hash),
                  !.functions = MapInsert(u.functions, hash, info)]
    IN IF hash \in DOMAIN u.functions
       THEN [unit |-> u1, lowered |-> FALSE,
             res |-> [op |-> "new_function", err |-> "FunctionConflict",
                      existing |-> u.functions[hash].signature]]
       ELSE LET r == add_assembly(u1, asm)
            IN [unit |-> r.unit, lowered |-> TRUE,
                res |-> [op |-> "new_function",
                         err |-> IF r.ok THEN "Ok" ELSE "MissingLabel"]]

\* <<hash, span>> of the Call instructions pushed into an assembly.
CallsOf(asm) ==
    {<<asm.instructions[i][1].raw.hash, asm.instructions[i][2]>> :
        i \in {j \in 1..Len(asm.instructions) :
                  /\ asm.instructions[j][1].kind = "Raw"
                  /\ asm.instructions[j][1].raw.op = "Call"}}

\* The spans of the first n instructions of an assembly.
SpansOf(asm, n) == [i \in 1..n |-> asm.instructions[i][2]]

\* A call of new_function. The assembly is moved into the call.
NewFunction(path, args, a) ==
    /\ a \in DOMAIN asms
    /\ fn_calls < MaxFnCalls
    /\ LET asm == asms[a]
           r == new_function(unit, path, args, asm)
       IN /\ unit' = r.unit
          /\ ret' = r.res
          /\ supplied' = supplied \o
                SpansOf(asm, Len(r.unit.instructions) - Len(unit.instructions))
          /\ lowered_calls' = IF r.lowered
                              THEN lowered_calls \cup CallsOf(asm)
                              ELSE lowered_calls
    /\ asms' = [x \in (DOMAIN asms) \ {a} |-> asms[x]]
    /\ fn_calls' = fn_calls + 1
    /\ fn_failed' = (fn_failed \/ ret'.err # "Ok")
    /\ registered' = IF HashFunction(path) \in DOMAIN registered
                     THEN registered
                     ELSE MapInsert(registered, HashFunction(path),
                              [path |-> path, args |-> args])
    /\ UNCHANGED <<labels_out, handed, link_vars,
                   other_vars>>

(***************************************************************************)
(* Linking.                                                                *)
(***************************************************************************)
\* The required hashes that are found neither in the unit's function table
\* nor in the context.
Unresolved(u, ctx) ==
    {h \in DOMAIN u.required_functions :
        h \notin DOMAIN u.functions /\ h \notin ctx}

\* The elements of a sequence of hashes that are in a set, in order.
RECURSIVE Filter(_, _)
Filter(seq, S) ==
    IF seq = <<>> THEN <<>>
    ELSE (IF Head(seq) \in S THEN <<Head(seq)>> ELSE <<>>)
             \o Filter(Tail(seq), S)

\* link that returns at the first unresolved hash.
link_first_only(u, sd, ctx, errs) ==
    LET order == IterOrder(sd, DOMAIN u.required_functions)
        missing == Filter(order, Unresolved(u, ctx))
        first == IF missing = <<>> THEN <<>> ELSE <<Head(missing)>>
        pushed == [i \in 1..Len(first) |->
                      [hash |-> first[i],
                       spans |-> u.required_functions[first[i]]]]
    IN [errors |-> errs \o pushed, ret |-> (errs \o pushed = <<>>)]

\* CompilationUnit::link on a unit whose required_functions map has hasher
\* state sd: the LinkerErrors after the call and the value returned. One
\* MissingFunction is pushed per unresolved hash, in iteration order, and
\* the result is whether the collection is empty.
link(u, sd, ctx, errs) ==
    LET order == IterOrder(sd, DOMAIN u.required_functions)
        missing == Filter(order, Unresolved(u, ctx))
        pushed == [i \in 1..Len(missing) |->
                      [hash |-> missing[i],
                       spans |-> u.required_functions[missing[i]]]]
    IN [errors |-> errs \o pushed, ret |-> (errs \o pushed = <<>>)]

\* A call of link on the unit. The caller passes a new LinkerErrors
\* (LinkerErrors::new) or the one it holds.
Link(fresh) ==
    /\ fresh \/ Len(errors) <= MaxErrors
    /\ LET pre == IF fresh THEN <<>> ELSE errors
           r == link(unit, seed, context, pre)
       IN /\ errors' = r.errors
          /\ ret' = [op |-> "link", who |-> "unit", pre |-> pre,
                     errors |-> r.errors, ret |-> r.ret]
    /\ UNCHANGED <<unit, asm_vars, hist_vars, seed, context,
                   other_vars>>

\* A call of link with a new LinkerErrors on a second unit, built by the
\* same sequence of builder calls: the same fields, its own hasher state.
LinkTwin ==
    /\ \E sd \in Seeds :
          LET r == link(unit, sd, context, <<>>)
          IN /\ errors' = r.errors
             /\ ret' = [op |-> "link", who |-> "twin", pre |-> <<>>,
                        errors |-> r.errors, ret |-> r.ret]
    /\ UNCHANGED <<unit, asm_vars, hist_vars, seed, context,
                   other_vars>>

(***************************************************************************)
(* Static strings and object keys.                                         *)
(***************************************************************************)
\* new_static_string that trusts the hash: a string whose hash is known gets
\* the slot of that hash without its content being compared.
new_static_string_by_hash(u, current) ==
    LET hash == HashOf(current)
    IN IF hash \in DOMAIN u.static_string_rev
       THEN [unit |-> u,
             res |-> [err |-> "Ok", slot |-> u.static_string_rev[hash]]]
       ELSE [unit |-> [u EXCEPT
                          !.static_strings = Append(@, current),
                          !.static_string_rev =
                              MapInsert(@, hash, Len(u.static_strings))],
             res |-> [err |-> "Ok", slot |-> Len(u.static_strings)]]

\* new_static_string that stores the conflicting string in the slot of the
\* existing one before it reports the conflict.
new_static_string_overwrite(u, current) ==
    LET hash == HashOf(current)
    IN IF hash \in DOMAIN u.static_string_rev
       THEN LET existing_slot == u.static_string_rev[hash]
            IN IF u.static_strings[existing_slot + 1] # current
               THEN [unit |-> [u EXCEPT
                                  !.static_strings[existing_slot + 1] = current],
                     res |-> [err |-> "StaticStringHashConflict"]]
               ELSE [unit |-> u, res |-> [err |-> "Ok", slot |-> existing_slot]]
       ELSE [unit |-> [u EXCEPT
                          !.static_strings = Append(@, current),
                          !.static_string_rev =
                              MapInsert(@, hash, Len(u.static_strings))],
             res |-> [err |-> "Ok", slot |-> Len(u.static_strings)]]

\* CompilationUnit::new_static_string, as the unit after it and its result.
new_static_string(u, current) ==
    LET hash == HashOf(current)
    IN IF hash \in DOMAIN u.static_string_rev
       THEN LET existing_slot == u.static_string_rev[hash]
            IN IF existing_slot >= Len(u.static_strings)
               THEN [unit |-> u, res |-> [err |-> "StaticStringMissing"]]
               ELSE IF u.static_strings[existing_slot + 1] # current
               THEN [unit |-> u,
                     res |-> [err |-> "StaticStringHashConflict"]]
               ELSE [unit |-> u, res |-> [err |-> "Ok", slot |-> existing_slot]]
       ELSE LET new_slot == Len(u.static_strings)
            IN [unit |-> [u EXCEPT
                             !.static_strings = Append(@, current),
                             !.static_string_rev = MapInsert(@, hash, new_slot)],
                res |-> [err |-> "Ok", slot |-> new_slot]]

\* CompilationUnit::new_static_object_keys, likewise.
new_static_object_keys(u, current) ==
    LET hash == HashObjectKeys(current)
    IN IF hash \in DOMAIN u.static_object_keys_rev
       THEN LET existing_slot == u.static_object_keys_rev[hash]
            IN IF existing_slot >= Len(u.static_object_keys)
               THEN [unit |-> u, res |-> [err |-> "StaticObjectKeysMissing"]]
               ELSE IF u.static_object_keys[existing_slot + 1] # current
               THEN [unit |-> u,
                     res |-> [err |-> "StaticObjectKeysHashConflict"]]
               ELSE [unit |-> u, res |-> [err |-> "Ok", slot |-> existing_slot]]
       ELSE LET new_slot == Len(u.static_object_keys)
            IN [unit |-> [u EXCEPT
                             !.static_object_keys = Append(@, current),
                             !.static_object_keys_rev =
                                 MapInsert(@, hash, new_slot)],
                res |-> [err |-> "Ok", slot |-> new_slot]]

\* A call of new_static_string.
NewStaticString(current) ==
    /\ LET r == new_static_string(unit, current)
       IN /\ unit' = r.unit
          /\ ret' = [op |-> "new_static_string", arg |-> current,
                     res |-> r.res]
          /\ handed' = handed \cup {<<"string", current, r.res>>}
    /\ UNCHANGED <<asm_vars, supplied, lowered_calls, fn_calls, fn_failed,
                   registered, link_vars,
                   other_vars>>

\* A call of new_static_object_keys.
NewStaticObjectKeys(current) ==
    /\ LET r == new_static_object_keys(unit, current)
       IN /\ unit' = r.unit
          /\ ret' = [op |-> "new_static_object_keys", arg |-> current,
                     res |-> r.res]
          /\ handed' = handed \cup {<<"keys", current, r.res>>}
    /\ UNCHANGED <<asm_vars, supplied, lowered_calls, fn_calls, fn_failed,
                   registered, link_vars,
                   other_vars>>

(***************************************************************************)
(* Function values (FnPtr) and the virtual machine.                        *)
(***************************************************************************)
\* The values a program pushes on a stack.
StackValues == [kind : {"Integer"}, n : {1, 2}]

\* The contexts and units a machine or a function value refers to (Rc
\* pointers), the offset of a function and the calling conventions.
Contexts == {1, 2}
Units == {1, 2}
\* The context and unit of a function value: those of the running machine,
\* another context, or another unit.
Homes == {h \in Contexts \X Units : h[1] = 1 \/ h[2] = 1}
Offsets == {5}
\* The type hashes of the tuple constructors.
TypeHashes == {1}
UnitFnCall == {"Immediate", "Generator", "Async"}

\* The captured environment of a closure.
Environment == [kind |-> "Tuple", items |-> <<[kind |-> "Integer", n |-> 7]>>]

\* The native handlers of the context: args is the number of parameters of
\* the native function the handler wraps.
Handlers == [name : {"native"}, args : 0..MaxArgs]

\* The five shapes of Inner.
FnHandler == [kind : {"FnHandler"}, handler : Handlers]
FnPtrOffset ==
    {f \in [kind : {"FnPtrOffset"}, context : Contexts, unit : Units,
            offset : Offsets, call : UnitFnCall, args : 0..MaxArgs] :
        <<f.context, f.unit>> \in Homes}
FnClosureOffset ==
    {f \in [kind : {"FnClosureOffset"}, context : Contexts, unit : Units,
            environment : {Environment}, offset : Offsets, call : UnitFnCall,
            args : 0..MaxArgs] :
        <<f.context, f.unit>> \in Homes}
FnTuple == [kind : {"FnTuple"}, hash : TypeHashes, args : 0..MaxArgs]
FnVariantTuple ==
    [kind : {"FnVariantTuple"}, enum_hash : {3}, hash : TypeHashes,
     args : 0..MaxArgs]
FnPtr ==
    FnHandler \cup FnPtrOffset \cup FnClosureOffset \cup FnTuple
        \cup FnVariantTuple

\* The argument lists of a standalone call (IntoArgs).
ArgLists == UNION {[1..n -> StackValues] : n \in 0..MaxArgs}

\* Vm::new_with_stack
new_with_stack(ctx, u, stack) == [VmNew(ctx, u) EXCEPT !.stack = stack]

\* Vm::set_ip
set_ip(v, ip) == [v EXCEPT !.ip = ip]

\* Vm::is_same: the machine runs over this context and this unit.
is_same(v, ctx, u) == v.context = ctx /\ v.unit = u

\* Vm::push_call_frame: the frame keeps the ip and the stack bottom of the
\* caller; the top args values become the frame of the callee.
push_call_frame(v, ip, args) ==
    IF Len(v.stack) - v.stack_bottom < args
    THEN [ok |-> FALSE, vm |-> v]
    ELSE [ok |-> TRUE,
          vm |-> [v EXCEPT
                     !.call_frames = Append(@, [ip |-> v.ip,
                                                stack_bottom |-> v.stack_bottom]),
                     !.stack_bottom = Len(v.stack) - args,
                     !.ip = ip]]

\* Stack::drain_stack_top: removes the top count values of the current
\* frame and yields them bottom first.
drain_stack_top(v, count) ==
    IF Len(v.stack) - v.stack_bottom < count
    THEN [ok |-> FALSE, vm |-> v, drained |-> <<>>]
    ELSE [ok |-> TRUE,
          vm |-> [v EXCEPT !.stack = SubSeq(@, 1, Len(@) - count)],
          drained |-> SubSeq(v.stack, Len(v.stack) - count + 1, Len(v.stack))]

\* Stack::pop_sequence: the same values, as a vector.
pop_sequence(v, count) == drain_stack_top(v, count)

\* Vm::complete and Vm::async_complete: the machine executes until it
\* exits. Its execution is not modelled further.
complete(v) == [v EXCEPT !.ran = TRUE]

\* A native handler called on a stack with an argument count: it pops that
\* many values and pushes one result.
Handler(h, stack, args) ==
    IF Len(stack) < args
    THEN [ok |-> FALSE, stack |-> stack]
    ELSE [ok |-> TRUE,
          stack |-> Append(SubSeq(stack, 1, Len(stack) - args),
                        [kind |-> "Native", name |-> h.name,
                         items |-> SubSeq(stack, Len(stack) - args + 1,
                                          Len(stack))])]

\* The frame of the function a machine is executing.
Frame(v) == SubSeq(v.stack, v.stack_bottom + 1, Len(v.stack))

\* check_args that only rejects too many arguments.
check_args_at_most(actual, expected) ==
    IF actual > expected
    THEN [ok |-> FALSE,
          res |-> [err |-> "ArgumentCountMismatch",
                   expected |-> expected, actual |-> actual]]
    ELSE [ok |-> TRUE]

\* FnPtr::check_args
check_args(actual, expected) ==
    IF actual # expected
    THEN [ok |-> FALSE,
          res |-> [err |-> "ArgumentCountMismatch",
                   expected |-> expected, actual |-> actual]]
    ELSE [ok |-> TRUE]

\* The value a new machine is turned into by its calling convention.
Driven(conv, v) ==
    CASE conv = "Generator" -> [kind |-> "Generator", vm |-> v]
      [] conv = "Immediate" -> [kind |-> "Returned", vm |-> complete(v)]
      [] conv = "Async" -> [kind |-> "Future", vm |-> v]

\* FnPtr::call, arm Inner::FnHandler.
call_FnHandler(fp, args) ==
    LET r == Handler(fp.handler, args, Len(args))
    IN IF r.ok
       THEN [err |-> "Ok", value |-> r.stack[Len(r.stack)]]
       ELSE [err |-> "StackError"]

\* call of an offset function that wraps the machine of a generator only
\* after it has run.
call_FnPtrOffset_eager(fp, args) ==
    LET c == check_args(Len(args), fp.args)
        v == set_ip(new_with_stack(fp.context, fp.unit, args), fp.offset)
    IN IF ~c.ok THEN c.res
       ELSE [err |-> "Ok",
             value |-> IF fp.call = "Immediate" THEN Driven(fp.call, v)
                       ELSE Driven(fp.call, complete(v))]

\* FnPtr::call, arm Inner::FnPtrOffset.
call_FnPtrOffset(fp, args) ==
    LET c == check_args(Len(args), fp.args)
        v == set_ip(new_with_stack(fp.context, fp.unit, args), fp.offset)
    IN IF ~c.ok THEN c.res
       ELSE [err |-> "Ok", value |-> Driven(fp.call, v)]

\* FnPtr::call, arm Inner::FnClosureOffset.
call_FnClosureOffset(fp, args) ==
    LET c == check_args(Len(args), fp.args)
        v == set_ip(new_with_stack(fp.context, fp.unit,
                        Append(args, fp.environment)), fp.offset)
    IN IF ~c.ok THEN c.res
       ELSE [err |-> "Ok", value |-> Driven(fp.call, v)]

\* FnPtr::call, arm Inner::FnTuple.
call_FnTuple(fp, args) ==
    LET c == check_args(Len(args), fp.args)
    IN IF ~c.ok THEN c.res
       ELSE [err |-> "Ok",
             value |-> [kind |-> "TypedTuple", hash |-> fp.hash,
                        items |-> args]]

\* FnPtr::call, arm Inner::FnVariantTuple.
call_FnVariantTuple(fp, args) ==
    LET c == check_args(Len(args), fp.args)
    IN IF ~c.ok THEN c.res
       ELSE [err |-> "Ok",
             value |-> [kind |-> "VariantTuple", enum_hash |-> fp.enum_hash,
                        hash |-> fp.hash, items |-> args]]

\* FnPtr::call
FnPtr_call(fp, args) ==
    CASE fp.kind = "FnHandler" -> call_FnHandler(fp, args)
      [] fp.kind = "FnPtrOffset" -> call_FnPtrOffset(fp, args)
      [] fp.kind = "FnClosureOffset" -> call_FnClosureOffset(fp, args)
      [] fp.kind = "FnTuple" -> call_FnTuple(fp, args)
      [] fp.kind = "FnVariantTuple" -> call_FnVariantTuple(fp, args)

\* No stop reason.
NoReason == [kind |-> "None"]

\* StopReason::CallVm(CallVm::new(call, vm))
CallVm(conv, v) == [kind |-> "CallVm", call |-> conv, vm |-> v]

\* FnPtr::call_with_vm, arm Inner::FnHandler: the handler gets the stack of
\* the machine and the argument count.
call_with_vm_FnHandler(fp, v, args) ==
    LET r == Handler(fp.handler, Frame(v), args)
    IN IF r.ok
       THEN [err |-> "Ok",
             vm |-> [v EXCEPT !.stack =
                        SubSeq(v.stack, 1, v.stack_bottom) \o r.stack],
             reason |-> NoReason]
       ELSE [err |-> "StackError", vm |-> v]

\* call_with_vm of an offset function that takes the fast path for every
\* immediate function, whatever machine it belongs to.
call_with_vm_FnPtrOffset_any_vm(fp, v, args) ==
    LET c == check_args(args, fp.args)
    IN IF ~c.ok THEN c.res @@ [vm |-> v]
       ELSE IF fp.call = "Immediate"
       THEN LET f == push_call_frame(v, fp.offset, args)
            IN IF f.ok
               THEN [err |-> "Ok", vm |-> f.vm, reason |-> NoReason]
               ELSE [err |-> "StackError", vm |-> v]
       ELSE LET d == drain_stack_top(v, args)
                child == set_ip(new_with_stack(fp.context, fp.unit, d.drained),
                                fp.offset)
            IN IF d.ok
               THEN [err |-> "Ok", vm |-> d.vm, reason |-> CallVm(fp.call, child)]
               ELSE [err |-> "StackError", vm |-> v]

\* FnPtr::call_with_vm, arm Inner::FnPtrOffset.
call_with_vm_FnPtrOffset(fp, v, args) ==
    LET c == check_args(args, fp.args)
    IN IF ~c.ok THEN c.res @@ [vm |-> v]
       ELSE IF fp.call = "Immediate" /\ is_same(v, fp.context, fp.unit)
       THEN LET f == push_call_frame(v, fp.offset, args)
            IN IF f.ok
               THEN [err |-> "Ok", vm |-> f.vm, reason |-> NoReason]
               ELSE [err |-> "StackError", vm |-> v]
       ELSE LET d == drain_stack_top(v, args)
                child == set_ip(new_with_stack(fp.context, fp.unit, d.drained),
                                fp.offset)
            IN IF d.ok
               THEN [err |-> "Ok", vm |-> d.vm, reason |-> CallVm(fp.call, child)]
               ELSE [err |-> "StackError", vm |-> v]

\* call_with_vm of a closure whose fast path pushes the environment before
\* it pushes the call frame.
call_with_vm_FnClosureOffset_env_first(fp, v, args) ==
    LET c == check_args(args, fp.args)
    IN IF ~c.ok THEN c.res @@ [vm |-> v]
       ELSE IF fp.call = "Immediate" /\ is_same(v, fp.context, fp.unit)
       THEN LET f == push_call_frame(
                         [v EXCEPT !.stack = Append(@, fp.environment)],
                         fp.offset, args)
            IN IF f.ok
               THEN [err |-> "Ok", vm |-> f.vm, reason |-> NoReason]
               ELSE [err |-> "StackError", vm |-> v]
       ELSE LET d == drain_stack_top(v, args)
                child == set_ip(new_with_stack(fp.context, fp.unit,
                                    Append(d.drained, fp.environment)),
                                fp.offset)
            IN IF d.ok
               THEN [err |-> "Ok", vm |-> d.vm, reason |-> CallVm(fp.call, child)]
               ELSE [err |-> "StackError", vm |-> v]

\* FnPtr::call_with_vm, arm Inner::FnClosureOffset.
call_with_vm_FnClosureOffset(fp, v, args) ==
    LET c == check_args(args, fp.args)
    IN IF ~c.ok THEN c.res @@ [vm |-> v]
       ELSE IF fp.call = "Immediate" /\ is_same(v, fp.context, fp.unit)
       THEN LET f == push_call_frame(v, fp.offset, args)
            IN IF f.ok
               THEN [err |-> "Ok",
                     vm |-> [f.vm EXCEPT !.stack = Append(@, fp.environment)],
                     reason |-> NoReason]
               ELSE [err |-> "StackError", vm |-> v]
       ELSE LET d == drain_stack_top(v, args)
                child == set_ip(new_with_stack(fp.context, fp.unit,
                                    Append(d.drained, fp.environment)),
                                fp.offset)
            IN IF d.ok
               THEN [err |-> "Ok", vm |-> d.vm, reason |-> CallVm(fp.call, child)]
               ELSE [err |-> "StackError", vm |-> v]

\* call_with_vm of a tuple constructor that pops the values before it checks
\* the argument count.
call_with_vm_FnTuple_pop_first(fp, v, args) ==
    LET c == check_args(args, fp.args)
        p == pop_sequence(v, args)
    IN IF ~p.ok THEN [err |-> "StackError", vm |-> v]
       ELSE IF ~c.ok THEN c.res @@ [vm |-> p.vm]
       ELSE [err |-> "Ok",
             vm |-> [p.vm EXCEPT !.stack =
                        Append(@, [kind |-> "TypedTuple", hash |-> fp.hash,
                                   items |-> p.drained])],
             reason |-> NoReason]

\* FnPtr::call_with_vm, arm Inner::FnTuple.
call_with_vm_FnTuple(fp, v, args) ==
    LET c == check_args(args, fp.args)
        p == pop_sequence(v, args)
    IN IF ~c.ok THEN c.res @@ [vm |-> v]
       ELSE IF p.ok
       THEN [err |-> "Ok",
             vm |-> [p.vm EXCEPT !.stack =
                        Append(@, [kind |-> "TypedTuple", hash |-> fp.hash,
                                   items |-> p.drained])],
             reason |-> NoReason]
       ELSE [err |-> "StackError", vm |-> v]

\* The values of a sequence, last first.
Reversed(seq) == [i \in 1..Len(seq) |-> seq[Len(seq) + 1 - i]]

\* call_with_vm of a variant tuple constructor that keeps the values in the
\* order they are popped, top first.
call_with_vm_FnVariantTuple_top_first(fp, v, args) ==
    LET c == check_args(args, fp.args)
        p == pop_sequence(v, args)
    IN IF ~c.ok THEN c.res @@ [vm |-> v]
       ELSE IF p.ok
       THEN [err |-> "Ok",
             vm |-> [p.vm EXCEPT !.stack =
                        Append(@, [kind |-> "VariantTuple",
                                   enum_hash |-> fp.enum_hash,
                                   hash |-> fp.hash,
                                   items |-> Reversed(p.drained)])],
             reason |-> NoReason]
       ELSE [err |-> "StackError", vm |-> v]

\* FnPtr::call_with_vm, arm Inner::FnVariantTuple.
call_with_vm_FnVariantTuple(fp, v, args) ==
    LET c == check_args(args, fp.args)
        p == pop_sequence(v, args)
    IN IF ~c.ok THEN c.res @@ [vm |-> v]
       ELSE IF p.ok
       THEN [err |-> "Ok",
             vm |-> [p.vm EXCEPT !.stack =
                        Append(@, [kind |-> "VariantTuple",
                                   enum_hash |-> fp.enum_hash,
                                   hash |-> fp.hash, items |-> p.drained])],
             reason |-> NoReason]
       ELSE [err |-> "StackError", vm |-> v]

\* FnPtr::call_with_vm: the machine after the call and the result.
FnPtr_call_with_vm(fp, v, args) ==
    CASE fp.kind = "FnHandler" -> call_with_vm_FnHandler(fp, v, args)
      [] fp.kind = "FnPtrOffset" -> call_with_vm_FnPtrOffset(fp, v, args)
      [] fp.kind = "FnClosureOffset" -> call_with_vm_FnClosureOffset(fp, v, args)
      [] fp.kind = "FnTuple" -> call_with_vm_FnTuple(fp, v, args)
      [] fp.kind = "FnVariantTuple" -> call_with_vm_FnVariantTuple(fp, v, args)

\* The running program pushes a value on the stack of its machine. The host
\* runs its machine while it holds no value of a standalone call.
VmPush(x) ==
    /\ value.kind = "None"
    /\ Len(vm.stack) < MaxStack
    /\ vm' = [vm EXCEPT !.stack = Append(@, x)]
    /\ ret' = [op |-> "push_value"]
    /\ UNCHANGED <<unit_vars, value, idx_vars>>

\* The host calls a function value with FnPtr::call, before it runs its
\* machine: the call reads nothing of the machine.
Call(fp, args) ==
    /\ vm = VmNew(1, 1)
    /\ LET r == FnPtr_call(fp, args)
       IN /\ ret' = [op |-> "call", fn |-> fp, args |-> args,
                     res |-> [x \in (DOMAIN r) \ {"value"} |-> r[x]]]
          /\ value' = IF r.err = "Ok" THEN r.value ELSE [kind |-> "None"]
    /\ UNCHANGED <<unit_vars, vm, idx_vars>>

\* The running machine calls a function value with FnPtr::call_with_vm, on
\* a stack of the values the program pushed; the call pushes at most one
\* value on it.
CallWithVm(fp, args) ==
    /\ value.kind = "None"
    /\ Len(vm.call_frames) < MaxFrames
    /\ \A i \in 1..Len(vm.stack) : vm.stack[i] \in StackValues
    /\ LET r == FnPtr_call_with_vm(fp, vm, args)
       IN /\ Len(r.vm.stack) <= MaxStack + 1
          /\ vm' = r.vm
          /\ ret' = [op |-> "call_with_vm", fn |-> fp, args |-> args,
                     pre |-> vm,
                     res |-> [x \in (DOMAIN r) \ {"vm"} |-> r[x]]]
    /\ UNCHANGED <<unit_vars, value, idx_vars>>

\* The host drives the generator or the future it holds: its machine
\* executes.
Drive ==
    /\ value.kind \in {"Generator", "Future"}
    /\ ~value.vm.ran
    /\ value' = [value EXCEPT !.vm = complete(@)]
    /\ ret' = [op |-> "drive"]
    /\ UNCHANGED <<unit_vars, vm, idx_vars>>

(***************************************************************************)
(* The indexer (Indexer, Index<T>).                                        *)
(***************************************************************************)
\* Names of the declarations of the indexed source.
FnNames == {"f", "g"}
ImplNames == {"Foo"}
ModNames == {"m"}

\* The nodes of the syntax tree that open an item or a scope.
Scoped == {"fn", "closure", "async_block"}
ExprNodes == Scoped \cup {"block"}

\* Indexer::call
Indexer_call_swapped(generator, is_async) ==
    IF is_async
    THEN IF generator THEN "Stream" ELSE "Generator"
    ELSE IF generator THEN "Async" ELSE "Immediate"

\* Indexer::call
Indexer_call(generator, is_async) ==
    IF is_async
    THEN IF generator THEN "Stream" ELSE "Async"
    ELSE IF generator THEN "Generator" ELSE "Immediate"

\* Items::push_name, push_block, push_closure, push_async_block: one more
\* component; the guard it returns removes it when it is dropped.
push_name(items, name) == Append(items, name)
drop_guard(items) == SubSeq(items, 1, Len(items) - 1)

\* IndexScopes::push_function, push_closure, push_scope.
\* locals are the names declared in the scope, captures the names a closure
\* uses from an enclosing scope, in the order they were first used.
push_function(scopes, is_async) ==
    Append(scopes, [kind |-> "function", generator |-> FALSE,
                    is_async |-> is_async, locals |-> {}, captures |-> <<>>])
push_closure(scopes, is_async) ==
    Append(scopes, [kind |-> "closure", generator |-> FALSE,
                    is_async |-> is_async, locals |-> {}, captures |-> <<>>])
push_scope(scopes) ==
    Append(scopes, [kind |-> "scope", generator |-> FALSE,
                    is_async |-> FALSE, locals |-> {}, captures |-> <<>>])

\* IndexScopes::declare: the name is a local of the current scope.
declare(scopes, name) ==
    [scopes EXCEPT ![Len(scopes)].locals = @ \cup {name}]

\* The names a scope resolves: its locals and what it has captured.
Known(scope) ==
    scope.locals \cup {scope.captures[i] : i \in 1..Len(scope.captures)}

\* The scope a use of the name resolves in, 0 when there is none: the
\* innermost scope that knows the name, not beyond the enclosing function.
Resolved(scopes, name) ==
    LET Fns == {i \in 1..Len(scopes) : scopes[i].kind = "function"}
        barrier == IF Fns = {} THEN 1
                   ELSE CHOOSE i \in Fns : \A j \in Fns : j <= i
        S == {i \in barrier..Len(scopes) : name \in Known(scopes[i])}
    IN IF S = {} THEN 0 ELSE CHOOSE i \in S : \A j \in S : j <= i

\* IndexScopes::mark_use: a name that resolves in an enclosing scope is
\* captured by every closure between that scope and the use.
mark_use(scopes, name) ==
    LET at == Resolved(scopes, name)
    IN IF at = 0 THEN scopes
       ELSE [i \in 1..Len(scopes) |->
                IF i > at /\ scopes[i].kind = "closure"
                THEN [scopes[i] EXCEPT !.captures = Append(@, name)]
                ELSE scopes[i]]

\* The innermost function or closure scope, 0 when there is none.
Enclosing(scopes) ==
    LET S == {i \in 1..Len(scopes) : scopes[i].kind # "scope"}
    IN IF S = {} THEN 0 ELSE CHOOSE i \in S : \A j \in S : j <= i

\* IndexScopes::mark_yield: the enclosing function or closure is a generator.
mark_yield(scopes) ==
    IF Enclosing(scopes) = 0
    THEN [ok |-> FALSE, scopes |-> scopes]
    ELSE [ok |-> TRUE,
          scopes |-> [scopes EXCEPT ![Enclosing(scopes)].generator = TRUE]]

\* IndexScopes::mark_await: fails outside an async function or closure.
mark_await(scopes) ==
    IF Enclosing(scopes) = 0 \/ ~scopes[Enclosing(scopes)].is_async
    THEN [ok |-> FALSE, scopes |-> scopes]
    ELSE [ok |-> TRUE, scopes |-> scopes]

\* The guard of a scope dropped, and what into_function and into_closure
\* return: the flags of the scope that is closed.
pop_scope(scopes) == SubSeq(scopes, 1, Len(scopes) - 1)
into_function(scopes) == scopes[Len(scopes)]
into_closure(scopes) == scopes[Len(scopes)]

\* The flags of a closed scope, as the build and index entries keep them
\* for the comparison with the source.
Flags(generator, is_async) == [generator |-> generator, is_async |-> is_async]

\* Index<DeclFn>, up to the body: the name is pushed on the items, the
\* function scope is pushed, and the body block pushes a block and a scope.
index_DeclFn_enter(ix, name, is_async) ==
    [ix EXCEPT
        !.items = push_name(push_name(@, name), "$block"),
        !.scopes = push_scope(push_function(@, is_async))]

\* Index<DeclFn> after the body that asks is_toplevel before is_instance.
index_DeclFn_exit_toplevel_first(ix, id, is_toplevel, is_instance, src) ==
    LET scopes == pop_scope(ix.scopes)
        item == drop_guard(ix.items)
        f == into_function(scopes)
        call == Indexer_call(f.generator, f.is_async)
        closed == [ix EXCEPT !.items = drop_guard(item),
                             !.scopes = pop_scope(scopes)]
    IN IF is_toplevel
       THEN [closed EXCEPT
                !.queue = Append(@, [item |-> item, build |-> "Function",
                                     call |-> call, impl_item |-> <<>>,
                                     id |-> id, src |-> src]),
                !.meta = @ \cup {item}]
       ELSE IF is_instance
       THEN IF ix.impl_items = <<>>
            THEN [closed EXCEPT !.err = "InstanceFunctionOutsideImpl"]
            ELSE [closed EXCEPT
                     !.queue = Append(@, [item |-> item,
                                          build |-> "InstanceFunction",
                                          call |-> call,
                                          impl_item |->
                                             ix.impl_items[Len(ix.impl_items)],
                                          id |-> id, src |-> src]),
                     !.meta = @ \cup {item}]
       ELSE [closed EXCEPT
                !.indexed = Append(@, [item |-> item, indexed |-> "Function",
                                       call |-> call, id |-> id, src |-> src])]

\* Index<DeclFn> after the body: the scopes of the body and of the function
\* are closed, the calling convention is chosen, and the function is queued
\* as an instance function, queued as a function, or indexed. id and src
\* stand for the ast the entry keeps: the declaration, and its flags in the
\* source.
index_DeclFn_exit(ix, id, is_toplevel, is_instance, src) ==
    LET scopes == pop_scope(ix.scopes)
        item == drop_guard(ix.items)
        f == into_function(scopes)
        call == Indexer_call(f.generator, f.is_async)
        closed == [ix EXCEPT !.items = drop_guard(item),
                             !.scopes = pop_scope(scopes)]
    IN IF is_instance
       THEN IF ix.impl_items = <<>>
            THEN [closed EXCEPT !.err = "InstanceFunctionOutsideImpl"]
            ELSE [closed EXCEPT
                     !.queue = Append(@, [item |-> item,
                                          build |-> "InstanceFunction",
                                          call |-> call,
                                          impl_item |->
                                             ix.impl_items[Len(ix.impl_items)],
                                          id |-> id, src |-> src]),
                     !.meta = @ \cup {item}]
       ELSE IF is_toplevel
       THEN [closed EXCEPT
                !.queue = Append(@, [item |-> item, build |-> "Function",
                                     call |-> call, impl_item |-> <<>>,
                                     id |-> id, src |-> src]),
                !.meta = @ \cup {item}]
       ELSE [closed EXCEPT
                !.indexed = Append(@, [item |-> item, indexed |-> "Function",
                                       call |-> call, id |-> id, src |-> src])]

\* Index<ExprClosure>, up to the body.
index_ExprClosure_enter(ix, is_async) ==
    [ix EXCEPT !.items = push_name(@, "$closure"),
               !.scopes = push_closure(@, is_async)]

\* Index<ExprBlock> of an async block, up to its expressions.
index_async_block_enter(ix) ==
    [ix EXCEPT !.items = push_name(@, "$async"),
               !.scopes = push_closure(@, TRUE)]

\* Index<ExprClosure> and the async arm of Index<ExprBlock> after the body:
\* the closure scope is closed, the calling convention is chosen and the
\* closure or async block is indexed.
index_closure_exit(ix, kind, src) ==
    LET c == into_closure(ix.scopes)
        call == Indexer_call(c.generator, c.is_async)
    IN [ix EXCEPT
           !.indexed = Append(@, [item |-> ix.items, indexed |-> kind,
                                  call |-> call, id |-> 0, src |-> src,
                                  captures |-> c.captures]),
           !.items = drop_guard(@),
           !.scopes = pop_scope(@)]

\* The names of local variables, the patterns of a let (a name or `_`) and
\* its expressions (a path of one name, or a literal).
VarNames == {"x", "y"}
Pats == VarNames \cup {"_"}
LetExprs == VarNames \cup {"lit"}

\* Index<Pat>: a pattern that is an identifier declares it (Index<Ident>).
index_Pat(ix, pat) ==
    IF pat \in VarNames
    THEN [ix EXCEPT !.scopes = declare(@, pat)]
    ELSE ix

\* Index<Expr>, arm Path: a path that is an identifier is marked as used
\* (Index<Path>); a literal marks nothing.
index_Expr(ix, expr) ==
    IF expr \in VarNames
    THEN [ix EXCEPT !.scopes = mark_use(@, expr)]
    ELSE ix

\* Index<ExprLet>: the pattern is indexed, then the expression.
index_ExprLet(ix, pat, expr) == index_Expr(index_Pat(ix, pat), expr)

\* Index<ExprBlock> of a plain block.
index_ExprBlock_enter(ix) ==
    [ix EXCEPT !.items = push_name(@, "$block"), !.scopes = push_scope(@)]
index_ExprBlock_exit(ix) ==
    [ix EXCEPT !.items = drop_guard(@), !.scopes = pop_scope(@)]

\* Index<Decl>, arm DeclImpl.
index_DeclImpl_enter(ix, name) ==
    [ix EXCEPT !.items = push_name(@, name),
               !.impl_items = Append(@, push_name(ix.items, name))]
index_DeclImpl_exit(ix) ==
    [ix EXCEPT !.items = drop_guard(@),
               !.impl_items = SubSeq(@, 1, Len(@) - 1)]

\* Index<Decl>, arm DeclMod with a body.
index_DeclMod_enter(ix, name) == [ix EXCEPT !.items = push_name(@, name)]
index_DeclMod_exit(ix) == [ix EXCEPT !.items = drop_guard(@)]

\* Index<ExprYield>
index_ExprYield(ix) ==
    LET m == mark_yield(ix.scopes)
    IN IF m.ok THEN [ix EXCEPT !.scopes = m.scopes]
       ELSE [ix EXCEPT !.err = "YieldOutsideFunction"]

\* Index<ExprAwait>
index_ExprAwait(ix) ==
    LET m == mark_await(ix.scopes)
    IN IF m.ok THEN [ix EXCEPT !.scopes = m.scopes]
       ELSE [ix EXCEPT !.err = "AwaitOutsideAsync"]

\* The node whose indexing is under way, "file" at the level of the file.
Current ==
    IF walk.open = <<>> THEN "file" ELSE walk.open[Len(walk.open)].node

\* The walk is in the body of a function, a closure or a block, where
\* expressions are indexed.
InExpr == Current \in ExprNodes

\* The walk is where a declaration can stand: in a file, an inline module
\* or, as an expression, in a body.
InDecls == Current \in {"file", "mod"} \/ InExpr

\* The innermost open function, closure or async block, 0 without one.
Innermost(open) ==
    LET S == {i \in 1..Len(open) : open[i].node \in Scoped}
    IN IF S = {} THEN 0 ELSE CHOOSE i \in S : \A j \in S : j <= i

\* One more node of the tree is met while the walk has not failed.
Walking ==
    /\ indexer.err = "Ok"
    /\ walk.nodes < MaxNodes

\* A node of the walk: its kind, the fn declaration it is (0 for another
\* node), the flags the source gives it, and the locals of the index call.
Node(node, id, is_async, is_toplevel, is_instance) ==
    [node |-> node, id |-> id, is_async |-> is_async, yields |-> FALSE,
     is_toplevel |-> is_toplevel, is_instance |-> is_instance]

Opened(n) ==
    [walk EXCEPT !.open = Append(@, n), !.nodes = @ + 1]

Closed == [walk EXCEPT !.open = SubSeq(@, 1, Len(@) - 1)]

\* The walk enters a fn declaration, which stands in a file, a module, an
\* impl block or a body.
EnterFn(name, is_async, is_instance) ==
    /\ Walking
    /\ InDecls \/ Current = "impl"
    /\ Len(walk.open) < MaxDepth
    /\ Len(walk.decls) < MaxDecls
    /\ LET id == Len(walk.decls) + 1
           n == Node("fn", id, is_async, indexer.items = <<>>, is_instance)
       IN /\ walk' = [Opened(n) EXCEPT
                         !.decls = Append(@,
                            [is_instance |-> is_instance,
                             in_impl |-> \E i \in 1..Len(walk.open) :
                                            walk.open[i].node = "impl",
                             outermost |-> walk.open = <<>>,
                             within |-> {walk.open[i].id :
                                            i \in 1..Len(walk.open)} \ {0}])]
          /\ indexer' = index_DeclFn_enter(indexer, name, is_async)
          /\ ret' = [op |-> "index", node |-> "fn"]
    /\ UNCHANGED <<unit_vars, vm_vars, names>>

\* The body of the fn declaration is indexed: the declaration is queued or
\* indexed.
ExitFn ==
    /\ indexer.err = "Ok"
    /\ Current = "fn"
    /\ LET n == walk.open[Len(walk.open)]
       IN /\ indexer' = index_DeclFn_exit(indexer, n.id, n.is_toplevel,
                            n.is_instance, Flags(n.yields, n.is_async))
          /\ walk' = [Closed EXCEPT !.ended = Append(@, n.id)]
          /\ ret' = [op |-> "indexed", node |-> "fn"]
    /\ UNCHANGED <<unit_vars, vm_vars, names>>

EnterClosure(is_async) ==
    /\ Walking
    /\ InExpr
    /\ Len(walk.open) < MaxDepth
    /\ walk' = Opened(Node("closure", 0, is_async, FALSE, FALSE))
    /\ indexer' = index_ExprClosure_enter(indexer, is_async)
    /\ ret' = [op |-> "index", node |-> "closure"]
    /\ UNCHANGED <<unit_vars, vm_vars, names>>

EnterAsyncBlock ==
    /\ Walking
    /\ InExpr
    /\ Len(walk.open) < MaxDepth
    /\ walk' = Opened(Node("async_block", 0, TRUE, FALSE, FALSE))
    /\ indexer' = index_async_block_enter(indexer)
    /\ ret' = [op |-> "index", node |-> "async_block"]
    /\ UNCHANGED <<unit_vars, vm_vars, names>>

ExitClosure ==
    /\ indexer.err = "Ok"
    /\ Current \in {"closure", "async_block"}
    /\ LET n == walk.open[Len(walk.open)]
       IN indexer' = index_closure_exit(indexer,
                        IF n.node = "closure" THEN "Closure" ELSE "AsyncBlock",
                        Flags(n.yields, n.is_async))
    /\ walk' = Closed
    /\ ret' = [op |-> "indexed", node |-> Current]
    /\ UNCHANGED <<unit_vars, vm_vars, names>>

EnterBlock ==
    /\ Walking
    /\ InExpr
    /\ Len(walk.open) < MaxDepth
    /\ walk' = Opened(Node("block", 0, FALSE, FALSE, FALSE))
    /\ indexer' = index_ExprBlock_enter(indexer)
    /\ ret' = [op |-> "index", node |-> "block"]
    /\ UNCHANGED <<unit_vars, vm_vars, names>>

ExitBlock ==
    /\ indexer.err = "Ok"
    /\ Current = "block"
    /\ walk' = Closed
    /\ indexer' = index_ExprBlock_exit(indexer)
    /\ ret' = [op |-> "indexed", node |-> "block"]
    /\ UNCHANGED <<unit_vars, vm_vars, names>>

EnterImpl(name) ==
    /\ Walking
    /\ InDecls
    /\ Len(walk.open) < MaxDepth
    /\ walk' = Opened(Node("impl", 0, FALSE, FALSE, FALSE))
    /\ indexer' = index_DeclImpl_enter(indexer, name)
    /\ ret' = [op |-> "index", node |-> "impl"]
    /\ UNCHANGED <<unit_vars, vm_vars, names>>

ExitImpl ==
    /\ indexer.err = "Ok"
    /\ Current = "impl"
    /\ walk' = Closed
    /\ indexer' = index_DeclImpl_exit(indexer)
    /\ ret' = [op |-> "indexed", node |-> "impl"]
    /\ UNCHANGED <<unit_vars, vm_vars, names>>

EnterMod(name) ==
    /\ Walking
    /\ InDecls
    /\ Len(walk.open) < MaxDepth
    /\ walk' = Opened(Node("mod", 0, FALSE, FALSE, FALSE))
    /\ indexer' = index_DeclMod_enter(indexer, name)
    /\ ret' = [op |-> "index", node |-> "mod"]
    /\ UNCHANGED <<unit_vars, vm_vars, names>>

ExitMod ==
    /\ indexer.err = "Ok"
    /\ Current = "mod"
    /\ walk' = Closed
    /\ indexer' = index_DeclMod_exit(indexer)
    /\ ret' = [op |-> "indexed", node |-> "mod"]
    /\ UNCHANGED <<unit_vars, vm_vars, names>>

\* A yield expression of the body that is indexed.
Yield ==
    /\ Walking
    /\ InExpr
    /\ indexer' = index_ExprYield(indexer)
    /\ walk' = [walk EXCEPT !.nodes = @ + 1,
                            !.open[Innermost(walk.open)].yields = TRUE]
    /\ ret' = [op |-> "index", node |-> "yield"]
    /\ UNCHANGED <<unit_vars, vm_vars, names>>

\* A let expression of the body that is indexed.
Let(pat, expr) ==
    /\ Walking
    /\ InExpr
    /\ indexer' = index_ExprLet(indexer, pat, expr)
    /\ walk' = [walk EXCEPT !.nodes = @ + 1]
    /\ ret' = [op |-> "index_let", pat |-> pat, expr |-> expr,
               pre |-> indexer.scopes]
    /\ UNCHANGED <<unit_vars, vm_vars, names>>

\* An await expression of the body that is indexed.
Await ==
    /\ Walking
    /\ InExpr
    /\ indexer' = index_ExprAwait(indexer)
    /\ walk' = [walk EXCEPT !.nodes = @ + 1]
    /\ ret' = [op |-> "index", node |-> "await"]
    /\ UNCHANGED <<unit_vars, vm_vars, names>>

(***************************************************************************)
(* Imports (CompilationUnit::new_import, Import::process).                 *)
(***************************************************************************)
\* CompilationUnit::with_default_prelude
with_default_prelude ==
    [UnitNew EXCEPT !.imports =
        ("dbg" :> <<"std", "dbg">>) @@ ("unit" :> <<"std", "unit">>)
        @@ ("bool" :> <<"std", "bool">>) @@ ("char" :> <<"std", "char">>)
        @@ ("int" :> <<"std", "int">>) @@ ("float" :> <<"std", "float">>)
        @@ ("Object" :> <<"std", "object", "Object">>)
        @@ ("Array" :> <<"std", "array", "Array">>)
        @@ ("String" :> <<"std", "string", "String">>)]

\* CompilationUnit::lookup_import_by_name
lookup_import_by_name(u, name) ==
    IF name \in DOMAIN u.imports THEN u.imports[name] ELSE <<>>

\* new_import that keeps the first binding of a name and reports no
\* conflict.
new_import_keep_first(u, path) ==
    IF path = <<>> THEN [unit |-> u, res |-> [err |-> "Ok"]]
    ELSE LET last == path[Len(path)]
         IN IF last \in DOMAIN u.imports
            THEN [unit |-> u, res |-> [err |-> "Ok"]]
            ELSE [unit |-> [u EXCEPT !.imports = (last :> path) @@ @],
                  res |-> [err |-> "Ok"]]

\* CompilationUnit::new_import: HashMap::insert binds the last component to
\* the path and returns the item it was bound to before.
new_import(u, path) ==
    IF path = <<>> THEN [unit |-> u, res |-> [err |-> "Ok"]]
    ELSE LET last == path[Len(path)]
             inserted == [u EXCEPT !.imports = (last :> path) @@ @]
         IN IF last \in DOMAIN u.imports
            THEN [unit |-> inserted,
                  res |-> [err |-> "ImportConflict",
                           existing |-> u.imports[last]]]
            ELSE [unit |-> inserted, res |-> [err |-> "Ok"]]

\* The items a context or a unit has registered.
ContextItems == {<<"std", "dbg">>, <<"std", "fmt">>, <<"a", "x">>}
UnitItems == {<<"a", "x">>, <<"b">>}

\* The use declarations: a first component and the rest, each an
\* identifier or a wildcard.
Wildcard == [kind |-> "Wildcard", name |-> "*"]
Ident(name) == [kind |-> "Ident", name |-> name]
DeclUse ==
    [first : {"std", "a", "b"},
     rest : {<<>>, <<Wildcard>>, <<Ident("dbg")>>, <<Ident("x")>>,
             <<Wildcard, Ident("x")>>, <<Ident("x"), Wildcard>>}]

\* Context::contains_prefix, UnitBuilder::contains_prefix: a registered
\* item starts with the components of the name.
contains_prefix(known, name) ==
    \E item \in known :
        /\ Len(item) >= Len(name)
        /\ SubSeq(item, 1, Len(name)) = name

\* The components iter_components yields: the components that follow the
\* name in the registered items.
Children(known, name) ==
    {item[Len(name) + 1] :
        item \in {i \in known :
                     /\ Len(i) > Len(name)
                     /\ SubSeq(i, 1, Len(name)) = name}}

\* The orders in which an iteration can yield the elements of a set.
Orders(S) ==
    {s \in [1..Cardinality(S) -> S] :
        \A i, j \in 1..Cardinality(S) : s[i] = s[j] => i = j}

\* The components of a use declaration before the last one.
Front(rest) == SubSeq(rest, 1, Len(rest) - 1)

\* The name Import::process builds from the first component and the
\* components before the last one.
RECURSIVE Pushed(_, _)
Pushed(name, front) ==
    IF front = <<>> THEN name
    ELSE Pushed(Append(name, front[1].name), Tail(front))

\* The loop of new_import calls over the new names: `?` returns at the
\* first error.
RECURSIVE ImportAll(_, _)
ImportAll(u, new_names) ==
    IF new_names = <<>> THEN [unit |-> u, res |-> [err |-> "Ok"]]
    ELSE LET r == new_import(u, new_names[1])
         IN IF r.res.err = "Ok"
            THEN ImportAll(r.unit, Tail(new_names))
            ELSE r

\* Import::process: context_iter and unit_iter are what the two
\* iter_components calls yield for the name.
process(decl_use, known, u, context_iter, unit_iter) ==
    LET front == Front(decl_use.rest)
        name == Pushed(<<decl_use.first>>, front)
        iter == context_iter \o unit_iter
        new_names == [i \in 1..Len(iter) |-> Append(name, iter[i])]
    IN IF \E i \in 1..Len(front) : front[i].kind = "Wildcard"
       THEN [unit |-> u, res |-> [err |-> "UnsupportedWildcard"]]
       ELSE IF decl_use.rest = <<>>
       THEN [unit |-> u, res |-> [err |-> "Ok"]]
       ELSE IF decl_use.rest[Len(decl_use.rest)].kind = "Wildcard"
       THEN IF /\ ~contains_prefix(known.context, name)
               /\ ~contains_prefix(known.unit, name)
            THEN [unit |-> u, res |-> [err |-> "MissingModule", item |-> name]]
            ELSE ImportAll(u, new_names)
       ELSE new_import(u, Append(name, decl_use.rest[Len(decl_use.rest)].name))

\* The name of a use declaration without its last component.
Prefix(decl_use) == Pushed(<<decl_use.first>>, Front(decl_use.rest))

\* An import of the import queue is processed.
Process(decl_use) ==
    /\ \E context_iter \in Orders(Children(names.context, Prefix(decl_use))),
          unit_iter \in Orders(Children(names.unit, Prefix(decl_use))) :
          LET r == process(decl_use, names, unit, context_iter, unit_iter)
          IN /\ unit' = r.unit
             /\ ret' = [op |-> "process", decl_use |-> decl_use,
                        pre |-> unit.imports, res |-> r.res]
    /\ UNCHANGED <<asm_vars, hist_vars, link_vars, vm_vars, idx_vars>>

\* The paths of the imports declared with new_import.
ImportPaths == {<<>>, <<"x">>, <<"a", "dbg">>, <<"std", "dbg">>}

\* An import is declared in the unit.
NewImport(path) ==
    /\ LET r == new_import(unit, path)
       IN /\ unit' = r.unit
          /\ ret' = [op |-> "new_import", path |-> path,
                     pre |-> unit.imports, res |-> r.res]
    /\ UNCHANGED <<asm_vars, hist_vars, link_vars, vm_vars, idx_vars>>

\* The names of the context and of the unit, and the unit the imports are
\* declared in: new, or with the default prelude.
InitImport ==
    /\ unit \in {UnitNew, with_default_prelude}
    /\ asms = EmptyMap
    /\ labels_out = {}
    /\ supplied = <<>>
    /\ lowered_calls = {}
    /\ fn_calls = 0
    /\ fn_failed = FALSE
    /\ registered = EmptyMap
    /\ handed = {}
    /\ errors = <<>>
    /\ ret = [op |-> "new"]
    /\ InitVm
    /\ InitIndexer
    /\ seed = 0
    /\ context = {}
    /\ names \in [context : SUBSET ContextItems, unit : SUBSET UnitItems]

(***************************************************************************)
(* File modules (Indexer::handle_file_mod).                                *)
(***************************************************************************)
\* The sources a `mod N;` declaration stands in: a source without path, and
\* sources at paths without and with a parent. A path is the sequence of
\* its components.
ModSources ==
    {[has_path |-> FALSE, path |-> <<>>],
     [has_path |-> TRUE, path |-> <<>>],
     [has_path |-> TRUE, path |-> <<"main.rn">>],
     [has_path |-> TRUE, path |-> <<"src", "main.rn">>]}

\* Path::parent: a path without component has none.
parent(path) ==
    IF path = <<>> THEN [some |-> FALSE, path |-> <<>>]
    ELSE [some |-> TRUE, path |-> SubSeq(path, 1, Len(path) - 1)]

\* Path::with_extension("rn") of a path that ends in a module name.
with_extension(path) ==
    [path EXCEPT ![Len(path)] = CASE @ = "m" -> "m.rn" [] @ = "mod" -> "mod.rn"]

\* The paths a file module can be at, and the states of the file system:
\* the paths that are files.
ModPaths ==
    {dir \o file : dir \in {<<>>, <<"src">>},
                   file \in {<<"m", "mod.rn">>, <<"m.rn">>}}
FileSystems == SUBSET ModPaths

\* handle_file_mod that looks for N.rn before N/mod.rn.
handle_file_mod_flat_first(ix, name, source, files, readable, span) ==
    LET item == push_name(ix.items, name)
        dir == parent(source.path)
        base == Append(dir.path, name)
        candidates == <<with_extension(base),
                        with_extension(Append(base, "mod"))>>
        found == {i \in 1..2 : candidates[i] \in files}
        first == CHOOSE i \in found : \A j \in found : i <= j
        inserted == [ix EXCEPT !.loaded = MapInsert(@, item, span)]
    IN IF ~source.has_path \/ ~dir.some
       THEN [ix EXCEPT !.err = "UnsupportedFileMod"]
       ELSE IF found = {}
       THEN [ix EXCEPT !.err = "ModNotFound"]
       ELSE IF item \in DOMAIN ix.loaded
       THEN [inserted EXCEPT !.err = "ModAlreadyLoaded"]
       ELSE IF ~readable
       THEN [inserted EXCEPT !.err = "ModFileError"]
       ELSE [inserted EXCEPT
                !.sources = Append(@, [item |-> item,
                                       path |-> candidates[first]])]

\* handle_file_mod that loads a module again.
handle_file_mod_reload(ix, name, source, files, readable, span) ==
    LET item == push_name(ix.items, name)
        dir == parent(source.path)
        base == Append(dir.path, name)
        candidates == <<with_extension(Append(base, "mod")),
                        with_extension(base)>>
        found == {i \in 1..2 : candidates[i] \in files}
        first == CHOOSE i \in found : \A j \in found : i <= j
        inserted == [ix EXCEPT !.loaded = MapInsert(@, item, span)]
    IN IF ~source.has_path \/ ~dir.some
       THEN [ix EXCEPT !.err = "UnsupportedFileMod"]
       ELSE IF found = {}
       THEN [ix EXCEPT !.err = "ModNotFound"]
       ELSE IF ~readable
       THEN [inserted EXCEPT !.err = "ModFileError"]
       ELSE [inserted EXCEPT
                !.sources = Append(@, [item |-> item,
                                       path |-> candidates[first]])]

\* Indexer::handle_file_mod: files are the paths that are files, readable
\* says whether Source::from_path succeeds, span is the span of the
\* declaration. The guard of the pushed name is dropped on return.
handle_file_mod(ix, name, source, files, readable, span) ==
    LET item == push_name(ix.items, name)
        dir == parent(source.path)
        base == Append(dir.path, name)
        candidates == <<with_extension(Append(base, "mod")),
                        with_extension(base)>>
        found == {i \in 1..2 : candidates[i] \in files}
        first == CHOOSE i \in found : \A j \in found : i <= j
        inserted == [ix EXCEPT !.loaded = MapInsert(@, item, span)]
    IN IF ~source.has_path \/ ~dir.some
       THEN [ix EXCEPT !.err = "UnsupportedFileMod"]
       ELSE IF found = {}
       THEN [ix EXCEPT !.err = "ModNotFound"]
       ELSE IF item \in DOMAIN ix.loaded
       THEN [inserted EXCEPT !.err = "ModAlreadyLoaded"]
       ELSE IF ~readable
       THEN [inserted EXCEPT !.err = "ModFileError"]
       ELSE [inserted EXCEPT
                !.sources = Append(@, [item |-> item,
                                       path |-> candidates[first]])]

\* The walk meets a `mod N;` declaration in a source, with the file system
\* in some state.
FileMod(name, source, files, readable) ==
    /\ Walking
    /\ InDecls
    /\ indexer' = handle_file_mod(indexer, name, source, files, readable,
                                  walk.nodes + 1)
    /\ walk' = [walk EXCEPT !.nodes = @ + 1]
    /\ ret' = [op |-> "handle_file_mod", name |-> name, source |-> source,
               files |-> files, readable |-> readable, pre |-> indexer]
    /\ UNCHANGED <<unit_vars, vm_vars, names>>

(***************************************************************************)
(* Serialization of values (crates/stk/src/serde.rs).                      *)
(***************************************************************************)
\* Values by variant and content: a string, an array or an object is the
\* content of its slot in the machine. Every variant has its own content
\* field.
Leaves ==
    {[kind |-> "None"]}
        \cup [kind : {"Bool"}, b : BOOLEAN]
        \cup [kind : {"Char"}, c : {"a"}]
        \cup [kind : {"Integer"}, n : {-1, 2}]
        \cup [kind : {"Float"}, f : {15}]
        \cup [kind : {"StaticString"}, s : {"a"}]
        \cup [kind : {"String"}, s : {"a", "bc"}]

\* Arrays and objects of these values.
ArraysOf(vals) ==
    [kind : {"Array"},
     items : {<<>>} \cup {<<x>> : x \in vals}
                 \cup {<<x, y>> : x \in vals, y \in vals}]
ObjectsOf(vals) ==
    [kind : {"Object"},
     fields : UNION {[keys -> vals] : keys \in SUBSET {"k", "l"}}]

\* The values that are serialized: leaves, arrays and objects of leaves, and
\* arrays and objects of one of these.
Flat == ArraysOf(Leaves) \cup ObjectsOf(Leaves)
Nested ==
    [kind : {"Array"}, items : {<<x>> : x \in Flat}]
        \cup [kind : {"Object"},
              fields : UNION {[{"k"} -> {x}] : x \in Flat}]
SerdeValues == Leaves \cup Flat \cup Nested

\* impl Serialize for ValuePtr: the value in the serde data model. A static
\* string and an allocated string are both written with serialize_str.
RECURSIVE serialize(_)
serialize(v) ==
    CASE v.kind = "None" -> [t |-> "unit"]
      [] v.kind = "Bool" -> [t |-> "bool", b |-> v.b]
      [] v.kind = "Char" -> [t |-> "char", c |-> v.c]
      [] v.kind = "Integer" -> [t |-> "i64", n |-> v.n]
      [] v.kind = "Float" -> [t |-> "f64", f |-> v.f]
      [] v.kind = "StaticString" -> [t |-> "str", s |-> v.s]
      [] v.kind = "String" -> [t |-> "str", s |-> v.s]
      [] v.kind = "Array" ->
            [t |-> "seq",
             items |-> [i \in 1..Len(v.items) |-> serialize(v.items[i])]]
      [] v.kind = "Object" ->
            [t |-> "map",
             entries |-> [k \in DOMAIN v.fields |-> serialize(v.fields[k])]]

\* VmVisitor::visit_str and visit_string: the string is allocated in the
\* machine.
visit_str(str) == [err |-> "Ok", value |-> [kind |-> "String", s |-> str]]

\* VmVisitor has no visit_char: the method of the Visitor trait hands the
\* char to visit_str as a string.
visit_char(c) == visit_str(c)

\* VmVisitor::visit_i64
visit_i64(n) == [err |-> "Ok", value |-> [kind |-> "Integer", n |-> n]]

\* VmVisitor has no visit_f64 and no visit_f32: the method of the Visitor
\* trait fails with invalid_type.
visit_f64(f) == [err |-> "invalid_type"]

\* VmVisitor::visit_bool
visit_bool(b) == [err |-> "Ok", value |-> [kind |-> "Bool", b |-> b]]

\* VmVisitor::visit_unit
visit_unit == [err |-> "Ok", value |-> [kind |-> "None"]]

\* VmVisitor::visit_seq over the elements as they were deserialized: the
\* first error of next_element is returned, else the array is allocated.
visit_seq(elems) ==
    IF \E i \in DOMAIN elems : elems[i].err # "Ok"
    THEN [err |-> elems[CHOOSE i \in DOMAIN elems :
                          /\ elems[i].err # "Ok"
                          /\ \A j \in DOMAIN elems :
                                elems[j].err # "Ok" => i <= j].err]
    ELSE [err |-> "Ok",
          value |-> [kind |-> "Array",
                     items |-> [i \in DOMAIN elems |-> elems[i].value]]]

\* VmVisitor::visit_map over the entries as they were deserialized: an
\* error of next_entry is returned, else the object is allocated.
visit_map(entries) ==
    IF \E k \in DOMAIN entries : entries[k].err # "Ok"
    THEN [err |-> entries[CHOOSE k \in DOMAIN entries :
                            entries[k].err # "Ok"].err]
    ELSE [err |-> "Ok",
          value |-> [kind |-> "Object",
                     fields |-> [k \in DOMAIN entries |-> entries[k].value]]]

\* impl Deserialize for ValuePtr: deserialize_any calls the method of
\* VmVisitor for what the data holds.
RECURSIVE deserialize(_)
deserialize(data) ==
    CASE data.t = "unit" -> visit_unit
      [] data.t = "bool" -> visit_bool(data.b)
      [] data.t = "char" -> visit_char(data.c)
      [] data.t = "i64" -> visit_i64(data.n)
      [] data.t = "f64" -> visit_f64(data.f)
      [] data.t = "str" -> visit_str(data.s)
      [] data.t = "seq" ->
            visit_seq([i \in 1..Len(data.items) |-> deserialize(data.items[i])])
      [] data.t = "map" ->
            visit_map([k \in DOMAIN data.entries |->
                          deserialize(data.entries[k])])

\* The host holds a value of the machine.
Allocate(v) ==
    /\ value.kind = "None"
    /\ ret.op \in {"new", "deserialize"}
    /\ value' = v
    /\ ret' = [op |-> "allocate"]
    /\ UNCHANGED <<unit_vars, vm, idx_vars>>

\* The host serializes the value it holds.
Serialize ==
    /\ ret.op = "allocate"
    /\ ret' = [op |-> "serialize", of |-> value, data |-> serialize(value)]
    /\ UNCHANGED <<unit_vars, vm_vars, idx_vars>>

\* The host deserializes what it has serialized; it holds the value that is
\* returned.
Deserialize ==
    /\ ret.op = "serialize"
    /\ LET d == deserialize(ret.data)
       IN /\ ret' = [op |-> "deserialize", of |-> ret.of, data |-> ret.data,
                     err |-> d.err]
          /\ value' = IF d.err = "Ok" THEN d.value ELSE [kind |-> "None"]
    /\ UNCHANGED <<unit_vars, vm, idx_vars>>

(***************************************************************************)
(* Specifications.                                                         *)
(***************************************************************************)
NewAssembly == NewAssemblyIn(AsmIds)

\* The raw instructions that are no call.
PlainInst == {r \in RawInst : r.op # "Call"}

Next ==
    \/ NewAssembly
    \/ \E a \in AsmIds, name \in LabelNames : NewLabel(a, name)
    \/ \E a \in AsmIds, label \in Label : ApplyLabel(a, label)
    \/ \E a \in AsmIds, label \in Label, span \in Span : Jump(a, label, span)
    \/ \E a \in AsmIds, label \in Label, span \in Span : JumpIf(a, label, span)
    \/ \E a \in AsmIds, label \in Label, span \in Span :
          JumpIfNot(a, label, span)
    \/ \E a \in AsmIds, raw \in PlainInst, span \in Span : Push(a, raw, span)
    \/ \E path \in Items, args \in ArgCounts, a \in AsmIds :
          NewFunction(path, args, a)

\* The builder: assemblies of jumps, labels and plain instructions, lowered
\* into the unit by new_function.
Spec == Init /\ [][Next]_vars

\* The calls a Call instruction can make.
CallInst == {r \in RawInst : r.op = "Call"}

NextLink ==
    \/ NewAssembly
    \/ \E a \in AsmIds, raw \in CallInst, span \in Span : Push(a, raw, span)
    \/ \E path \in Items, a \in AsmIds : NewFunction(path, 0, a)
    \/ \E fresh \in BOOLEAN : Link(fresh)
    \/ LinkTwin

\* The builder and the linker: assemblies of calls are lowered into the
\* unit, which is linked against the context at any time.
SpecLink == InitLink /\ [][NextLink]_vars

NextIntern ==
    \/ \E current \in Strings : NewStaticString(current)
    \/ \E current \in KeySets : NewStaticObjectKeys(current)

\* The interning of static strings and object keys.
SpecIntern == Init /\ [][NextIntern]_vars

\* Handles of the assemblies of SpecLabels.
LabelAsmIds == 1..MaxAsmLabels

NextLabels ==
    \/ NewAssemblyIn(LabelAsmIds)
    \/ \E a \in LabelAsmIds, name \in LabelNames : NewLabel(a, name)
    \/ \E path \in Items, a \in LabelAsmIds : NewFunction(path, 0, a)

\* The label counter: several assemblies are created from the unit, get
\* labels and are lowered in any order.
SpecLabels == Init /\ [][NextLabels]_vars

NextFnPtr ==
    \/ \E x \in StackValues : VmPush(x)
    \/ \E fp \in FnPtr, args \in ArgLists : Call(fp, args)
    \/ \E fp \in FnPtr, args \in 0..MaxArgs : CallWithVm(fp, args)
    \/ Drive

\* Function values called by the host and by a running machine.
SpecFnPtr == Init /\ [][NextFnPtr]_vars

NextIndex ==
    \/ \E name \in FnNames, is_async \in BOOLEAN, is_instance \in BOOLEAN :
          EnterFn(name, is_async, is_instance)
    \/ ExitFn
    \/ \E is_async \in BOOLEAN : EnterClosure(is_async)
    \/ EnterAsyncBlock
    \/ ExitClosure
    \/ EnterBlock
    \/ ExitBlock
    \/ \E name \in ImplNames : EnterImpl(name)
    \/ ExitImpl
    \/ \E name \in ModNames : EnterMod(name)
    \/ ExitMod
    \/ Yield
    \/ Await

\* The indexer walks the declarations of a source file.
SpecIndex == Init /\ [][NextIndex]_vars

NextImport ==
    \/ \E decl_use \in DeclUse : Process(decl_use)
    \/ \E path \in ImportPaths : NewImport(path)

\* The imports the indexer has queued are processed.
SpecImport == InitImport /\ [][NextImport]_vars

NextMod ==
    \/ \E name \in ModNames : EnterMod(name)
    \/ ExitMod
    \/ \E name \in ModNames, source \in ModSources, files \in FileSystems,
          readable \in BOOLEAN : FileMod(name, source, files, readable)

\* The indexer walks a source of inline modules and `mod N;` declarations.
SpecMod == Init /\ [][NextMod]_vars

NextLet ==
    \/ \E name \in FnNames : EnterFn(name, FALSE, FALSE)
    \/ ExitFn
    \/ EnterClosure(FALSE)
    \/ ExitClosure
    \/ EnterBlock
    \/ ExitBlock
    \/ \E pat \in Pats, expr \in LetExprs : Let(pat, expr)

\* The indexer walks function bodies of let expressions, closures and
\* blocks.
SpecLet == Init /\ [][NextLet]_vars

NextSerde ==
    \/ \E v \in SerdeValues : Allocate(v)
    \/ Serialize
    \/ Deserialize

\* Values of the machine are serialized and deserialized again.
SpecSerde == Init /\ [][NextSerde]_vars

(***************************************************************************)
(* Properties of the function table and of lowering (Spec).                *)
(***************************************************************************)
\* The unit index (0-based) a jump at 0-based index i lands on.
JumpOps == {"Jump", "JumpIf", "JumpIfNot"}
Destination(i) == i + unit.instructions[i + 1].offset

\* C1: every hash h of the function table satisfies
\* functions_rev[functions[h].offset] = h, so function_at(functions[h].offset)
\* returns h.
C1_FunctionsRevInverse ==
    \A h \in DOMAIN unit.functions :
        LET offset == unit.functions[h].offset
        IN /\ offset \in DOMAIN unit.functions_rev
           /\ unit.functions_rev[offset] = h

\* C2: the offset of every function table entry is an index of the
\* instructions: 0 <= offset < instructions.len().
C2_OffsetInRange ==
    \A h \in DOMAIN unit.functions :
        /\ 0 <= unit.functions[h].offset
        /\ unit.functions[h].offset < Len(unit.instructions)

\* C3: while every new_function call has succeeded, each jump at unit index
\* i with offset d has its destination i + d in [0, instructions.len()).
C3_JumpsInRange ==
    ~fn_failed =>
        \A i \in 0..(Len(unit.instructions) - 1) :
            unit.instructions[i + 1].op \in JumpOps =>
                /\ 0 <= Destination(i)
                /\ Destination(i) < Len(unit.instructions)

\* C4: instructions and debug have the same length and debug[i] holds the
\* span supplied with instruction i, in every state, also after new_function
\* has failed with FunctionConflict or with MissingLabel part-way.
C4_DebugParallel ==
    /\ Len(unit.instructions) = Len(unit.debug)
    /\ Len(supplied) = Len(unit.debug)
    /\ \A i \in 1..Len(unit.debug) : unit.debug[i].span = supplied[i]

\* C4, its case: the first new_function call has failed with MissingLabel
\* after it lowered one instruction of its assembly.
C4_FailedPartWay ==
    /\ ret.op = "new_function"
    /\ ret.err = "MissingLabel"
    /\ fn_calls = 1
    /\ Len(unit.instructions) = 1

\* C26: a new_function call that returns an error (FunctionConflict or
\* MissingLabel) leaves the unit as it was before the call: the entry of the
\* function table registered for the hash keeps its offset and signature,
\* functions_rev gains no entry, and no instruction and no debug record is
\* appended.
C26_FailedNewFunctionUnchanged ==
    [][(/\ fn_calls' = fn_calls + 1
        /\ ret'.op = "new_function"
        /\ ret'.err \in {"FunctionConflict", "MissingLabel"})
       => /\ \A hash \in DOMAIN unit.functions :
                /\ hash \in DOMAIN unit'.functions
                /\ unit'.functions[hash] = unit.functions[hash]
          /\ DOMAIN unit'.functions_rev = DOMAIN unit.functions_rev
          /\ unit'.instructions = unit.instructions
          /\ unit'.debug = unit.debug]_vars

\* C11: a new_function call whose path hashes to a hash that is in the
\* function table with a different signature fails with FunctionConflict and
\* reports the signature that was registered first for the hash; a call
\* whose hash is not in the table does not fail with FunctionConflict.
C11_FunctionConflict ==
    [][\A path \in Items, args \in ArgCounts, a \in AsmIds :
          NewFunction(path, args, a) =>
             LET hash == HashFunction(path)
                 signature == [path |-> path, args |-> args]
             IN /\ (/\ hash \in DOMAIN unit.functions
                     /\ unit.functions[hash].signature # signature)
                       => /\ ret'.err = "FunctionConflict"
                          /\ ret'.existing = registered[hash]
                /\ hash \notin DOMAIN unit.functions
                       => ret'.err # "FunctionConflict"]_vars

\* C12: a new_function call that lowers its assembly emits, for the
\* instruction at assembly position pos, the raw instruction itself or, for
\* a symbolic jump to label L, the raw jump of the same kind with offset
\* labels[L] - pos, in order; it lowers the whole assembly and succeeds when
\* every jump's label was applied, and otherwise fails with MissingLabel at
\* the first jump whose label was never applied.
C12_Lowering ==
    [][\A a \in DOMAIN asms :
          (/\ a \notin DOMAIN asms'
           /\ ret'.op = "new_function"
           /\ ret'.err # "FunctionConflict")
          => LET asm == asms[a]
                 base == Len(unit.instructions)
                 n == Len(unit'.instructions) - base
                 Emitted(pos) == unit'.instructions[base + pos + 1]
                 Sym(pos) == asm.instructions[pos + 1][1]
                 Missing == {pos \in 0..(Len(asm.instructions) - 1) :
                                /\ Sym(pos).kind # "Raw"
                                /\ Sym(pos).label \notin DOMAIN asm.labels}
             IN /\ n \in 0..Len(asm.instructions)
                /\ \A pos \in 0..(n - 1) :
                      IF Sym(pos).kind = "Raw"
                      THEN Emitted(pos) = Sym(pos).raw
                      ELSE Emitted(pos) =
                              [op |-> Sym(pos).kind,
                               offset |-> asm.labels[Sym(pos).label] - pos]
                /\ Missing = {} =>
                      (ret'.err = "Ok" /\ n = Len(asm.instructions))
                /\ Missing # {} =>
                      /\ ret'.err = "MissingLabel"
                      /\ n \in Missing
                      /\ \A pos \in Missing : n <= pos]_vars

\* C12, its case: an assembly with a backward jump behind a raw instruction
\* has been lowered.
C12_BackwardJump ==
    /\ ret.op = "new_function"
    /\ ret.err = "Ok"
    /\ Len(unit.instructions) = 2
    /\ unit.instructions[1].op = "Pop"
    /\ unit.instructions[2].op \in JumpOps
    /\ unit.instructions[2].offset < 0

(***************************************************************************)
(* Properties of the label counter (SpecLabels).                           *)
(***************************************************************************)
\* C13: no call of new_assembly, Assembly::new_label or new_function
\* decreases the unit's label_count, also when several assemblies are alive
\* and are lowered in any order.
C13_LabelCountMonotonic ==
    [][unit'.label_count >= unit.label_count]_vars

(***************************************************************************)
(* Properties of the required functions and of linking (SpecLink).         *)
(***************************************************************************)
\* C7: required_functions[h] contains the span of every Call of h pushed
\* into an assembly that was lowered into the unit.
C7_RequiredSpansKept ==
    \A c \in lowered_calls :
        /\ c[1] \in DOMAIN unit.required_functions
        /\ \E i \in 1..Len(unit.required_functions[c[1]]) :
              unit.required_functions[c[1]][i] = c[2]

\* C8: link returns true if and only if every required hash is found in
\* the unit's function table or in the context, whatever the LinkerErrors
\* passed in holds.
C8_LinkResult ==
    (ret.op = "link" /\ ret.who = "unit") =>
        (ret.ret <=> Unresolved(unit, context) = {})

\* The errors a link call appended to the collection it was given.
Appended(r) == SubSeq(r.errors, Len(r.pre) + 1, Len(r.errors))

\* C9: one link call appends exactly one MissingFunction per unresolved
\* hash, carrying the spans recorded for the hash in required_functions,
\* appends none for a hash that resolves, and keeps the errors it was given.
C9_LinkReportsAll ==
    ret.op = "link" =>
        LET added == Appended(ret)
            missing == Unresolved(unit, context)
        IN /\ SubSeq(ret.errors, 1, Len(ret.pre)) = ret.pre
           /\ Len(added) = Cardinality(missing)
           /\ \A h \in missing :
                 \E i \in 1..Len(added) :
                    added[i] = [hash |-> h,
                                spans |-> unit.required_functions[h]]
           /\ \A i \in 1..Len(added) : added[i].hash \in missing

\* C9, its case: a link call has appended two errors, for the two required
\* hashes that do not resolve, behind an error it was given.
C9_TwoMissing ==
    /\ ret.op = "link"
    /\ Len(ret.pre) > 0
    /\ Len(Appended(ret)) = 2
    /\ Cardinality(Unresolved(unit, context)) = 2

\* C10: two link calls in a row, each with a new LinkerErrors, of the same
\* unit or of two units built by the same builder calls, against the same
\* context, produce the same errors in the same order.
C10_LinkDeterministic ==
    [][(/\ ret.op = "link" /\ ret.pre = <<>>
        /\ ret'.op = "link" /\ ret'.pre = <<>>)
       => ret'.errors = ret.errors]_vars

(***************************************************************************)
(* Properties of the static tables (SpecIntern).                           *)
(***************************************************************************)
\* The calls made on a table that returned a slot.
Slots(table) == {x[3].slot : x \in {y \in handed : y[1] = table /\ y[3].err = "Ok"}}

\* C5: two calls with equal content return the same result (the same slot),
\* and a call whose content differs from an interned one with the same hash
\* returns the hash conflict error of its table.
C5_Interning ==
    /\ \A x, y \in handed : (x[1] = y[1] /\ x[2] = y[2]) => x[3] = y[3]
    /\ ret.op = "new_static_string" =>
          ((\E s \in 1..Len(unit.static_strings) :
               /\ unit.static_strings[s] # ret.arg
               /\ HashOf(unit.static_strings[s]) = HashOf(ret.arg))
           => ret.res.err = "StaticStringHashConflict")
    /\ ret.op = "new_static_object_keys" =>
          ((\E s \in 1..Len(unit.static_object_keys) :
               /\ unit.static_object_keys[s] # ret.arg
               /\ HashObjectKeys(unit.static_object_keys[s])
                     = HashObjectKeys(ret.arg))
           => ret.res.err = "StaticObjectKeysHashConflict")

\* C5, its case: a string was interned again and got the slot of its first
\* call, not the newest, after calls of both tables met a hash conflict.
C5_Reinterned ==
    /\ ret.op = "new_static_string"
    /\ ret.res.err = "Ok"
    /\ ret.res.slot + 1 < Len(unit.static_strings)
    /\ \E x \in handed : x[3].err = "StaticStringHashConflict"
    /\ \E x \in handed : x[3].err = "StaticObjectKeysHashConflict"

\* C6: the slots handed out for each table are exactly 0..n-1, the reverse
\* map sends the hash of the content of slot s to s, and no call, failed or
\* not, changes or removes a slot; a failed call adds none.
C6_SlotsDenseWriteOnce ==
    /\ [](/\ Slots("string") = 0..(Len(unit.static_strings) - 1)
          /\ Slots("keys") = 0..(Len(unit.static_object_keys) - 1)
          /\ \A s \in 1..Len(unit.static_strings) :
                /\ HashOf(unit.static_strings[s])
                      \in DOMAIN unit.static_string_rev
                /\ unit.static_string_rev[HashOf(unit.static_strings[s])]
                      = s - 1
          /\ \A s \in 1..Len(unit.static_object_keys) :
                /\ HashObjectKeys(unit.static_object_keys[s])
                      \in DOMAIN unit.static_object_keys_rev
                /\ unit.static_object_keys_rev[
                       HashObjectKeys(unit.static_object_keys[s])] = s - 1)
    /\ [][/\ \A s \in 1..Len(unit.static_strings) :
                /\ s <= Len(unit.static_strings')
                /\ unit.static_strings'[s] = unit.static_strings[s]
          /\ \A s \in 1..Len(unit.static_object_keys) :
                /\ s <= Len(unit.static_object_keys')
                /\ unit.static_object_keys'[s] = unit.static_object_keys[s]
          /\ (ret'.op \in {"new_static_string", "new_static_object_keys"}
                /\ ret'.res.err # "Ok")
             => /\ unit.static_strings' = unit.static_strings
                /\ unit.static_object_keys' = unit.static_object_keys]_vars

\* C6, its case: a call failed on a table that holds two slots.
C6_FailedOnFullTable ==
    /\ ret.op = "new_static_string"
    /\ ret.res.err = "StaticStringHashConflict"
    /\ Len(unit.static_strings) = 2
    /\ Len(unit.static_object_keys) = 2

(***************************************************************************)
(* Properties of function values (SpecFnPtr).                              *)
(***************************************************************************)
\* The last step was a call of a function value.
Called == ret.op \in {"call", "call_with_vm"}

\* The argument count a function value declares; for a native handler, the
\* number of parameters of the native function.
Declared(fp) == IF fp.kind = "FnHandler" THEN fp.handler.args ELSE fp.args

\* The argument count the last call supplied.
SuppliedCount == IF ret.op = "call" THEN Len(ret.args) ELSE ret.args

\* The result is ArgumentCountMismatch { expected, actual }.
Mismatch(res, expected, actual) ==
    /\ res.err = "ArgumentCountMismatch"
    /\ res.expected = expected
    /\ res.actual = actual

\* The function value is a bytecode function.
Bytecode(fp) == fp.kind \in {"FnPtrOffset", "FnClosureOffset"}

\* The values the running machine supplies to a call of args arguments.
Top(v, args) == SubSeq(v.stack, Len(v.stack) - args + 1, Len(v.stack))

C15_CallWithVmPaths ==
    (ret.op = "call_with_vm" /\ Bytecode(ret.fn) /\ ret.res.err = "Ok") =>
        LET fp == ret.fn
            pre == ret.pre
            reason == ret.res.reason
        IN IF /\ fp.call = "Immediate"
              /\ pre.context = fp.context
              /\ pre.unit = fp.unit
           THEN /\ reason.kind = "None"
                /\ vm.call_frames =
                      Append(pre.call_frames,
                             [ip |-> pre.ip,
                              stack_bottom |-> pre.stack_bottom])
                /\ vm.ip = fp.offset
                /\ SubSeq(vm.stack, 1, Len(pre.stack)) = pre.stack
           ELSE /\ reason.kind = "CallVm"
                /\ reason.call = fp.call
                /\ reason.vm.context = fp.context
                /\ reason.vm.unit = fp.unit
                /\ reason.vm.ip = fp.offset
                /\ reason.vm.call_frames = <<>>
                /\ ~reason.vm.ran
                /\ SubSeq(reason.vm.stack, 1, ret.args) = Top(pre, ret.args)
                /\ vm.stack = SubSeq(pre.stack, 1, Len(pre.stack) - ret.args)
                /\ vm.call_frames = pre.call_frames
                /\ vm.ip = pre.ip

\* C15, its case: an Immediate function of another unit or context was
\* called with two different values, which went to a new machine.
C15_ImmediateElsewhere ==
    /\ ret.op = "call_with_vm"
    /\ ret.res.err = "Ok"
    /\ ret.res.reason.kind = "CallVm"
    /\ ret.res.reason.call = "Immediate"
    /\ Len(ret.res.reason.vm.stack) = 2
    /\ ret.res.reason.vm.stack[1] # ret.res.reason.vm.stack[2]
    /\ Len(vm.stack) = 1

\* The machine of a generator or a future the host holds has executed only
\* if the host drove it.
NotRunUntilDriven ==
    (value.kind \in {"Generator", "Future"} /\ value.vm.ran)
        => ret.op = "drive"

\* What FnPtr::call returns for a calling convention.
Wrapped(conv, val) ==
    CASE conv = "Immediate" -> val.kind = "Returned" /\ val.vm.ran
      [] conv = "Generator" -> val.kind = "Generator" /\ ~val.vm.ran
      [] conv = "Async" -> val.kind = "Future" /\ ~val.vm.ran

\* The machine a successful FnPtr::call of a bytecode function built, apart
\* from its stack.
Standalone ==
    /\ value.vm.context = ret.fn.context
    /\ value.vm.unit = ret.fn.unit
    /\ value.vm.ip = ret.fn.offset
    /\ Wrapped(ret.fn.call, value)

\* C16: a FnPtr::call of an offset or closure offset function that
\* succeeds builds a machine with the function's context and unit, its ip at
\* the function offset and a stack of exactly the supplied arguments; an
\* Immediate function has run when call returns, a Generator or Async one
\* is wrapped without having executed, and executes only when it is driven.
C16_StandaloneCall ==
    /\ NotRunUntilDriven
    /\ (ret.op = "call" /\ Bytecode(ret.fn) /\ ret.res.err = "Ok")
          => Standalone /\ value.vm.stack = ret.args

\* C16 as amended: the stack holds the supplied arguments, followed for a
\* closure offset function by the captured environment tuple.
C16_StandaloneCallEnv ==
    /\ NotRunUntilDriven
    /\ (ret.op = "call" /\ Bytecode(ret.fn) /\ ret.res.err = "Ok")
          => /\ Standalone
             /\ value.vm.stack =
                   IF ret.fn.kind = "FnClosureOffset"
                   THEN Append(ret.args, ret.fn.environment) ELSE ret.args

\* C16, its case: the host holds the future of an async closure called with
\* two arguments, which has not executed.
C16_FutureNotDriven ==
    /\ ret.op = "call"
    /\ ret.fn.kind = "FnClosureOffset"
    /\ value.kind = "Future"
    /\ ~value.vm.ran
    /\ Len(value.vm.stack) = 3

\* C17: on each call path of a closure offset function (FnPtr::call, the
\* fast path of call_with_vm, the path of call_with_vm that builds a
\* machine) the frame of the callee holds the supplied arguments in the
\* caller's order, followed by the environment tuple on top.
C17_ClosureFrame ==
    (Called /\ ret.fn.kind = "FnClosureOffset" /\ ret.res.err = "Ok") =>
        IF ret.op = "call"
        THEN Frame(value.vm) = Append(ret.args, ret.fn.environment)
        ELSE IF ret.res.reason.kind = "None"
        THEN Frame(vm) = Append(Top(ret.pre, ret.args), ret.fn.environment)
        ELSE Frame(ret.res.reason.vm)
                = Append(Top(ret.pre, ret.args), ret.fn.environment)

\* C17, its case: the fast path has entered a closure called with two
\* different values above a value of its caller.
C17_FastPathFrame ==
    /\ ret.op = "call_with_vm"
    /\ ret.fn.kind = "FnClosureOffset"
    /\ ret.res.err = "Ok"
    /\ ret.res.reason.kind = "None"
    /\ Len(vm.call_frames) = 1
    /\ vm.stack_bottom = 1
    /\ Len(Frame(vm)) = 3
    /\ Frame(vm)[1] # Frame(vm)[2]
    /\ Frame(vm)[3] = Environment

\* C28: when call_with_vm fails with ArgumentCountMismatch the running
\* machine is as it was before the call: its stack, its call frames, its
\* stack bottom and its ip.
C28_MismatchLeavesVm ==
    (ret.op = "call_with_vm" /\ ret.res.err = "ArgumentCountMismatch") =>
        /\ vm.stack = ret.pre.stack
        /\ vm.call_frames = ret.pre.call_frames
        /\ vm.stack_bottom = ret.pre.stack_bottom
        /\ vm.ip = ret.pre.ip
        /\ vm = ret.pre

\* C28, its case: a function that declares one argument was called with the
\* two values of the frame of a function the machine had entered.
C28_TwoForOneInFrame ==
    /\ ret.op = "call_with_vm"
    /\ Mismatch(ret.res, 1, 2)
    /\ Len(vm.call_frames) = 1
    /\ Len(Frame(vm)) = 2
    /\ vm.ip = 5

\* The value a tuple constructor or a variant tuple constructor makes of
\* these items.
Constructed(fp, items) ==
    IF fp.kind = "FnTuple"
    THEN [kind |-> "TypedTuple", hash |-> fp.hash, items |-> items]
    ELSE [kind |-> "VariantTuple", enum_hash |-> fp.enum_hash,
          hash |-> fp.hash, items |-> items]

\* C29: call_with_vm of a tuple constructor or a variant tuple constructor
\* with the declared argument count, on a machine whose current frame holds
\* that many values, replaces the top args values of the stack by one
\* TypedTuple / VariantTuple of these values in the order they were pushed,
\* with the hash (and the enum hash) of the constructor; the values below,
\* the call frames and the ip are unchanged, no machine is created and no
\* stop reason is returned.
C29_TupleConstructor ==
    (/\ ret.op = "call_with_vm"
     /\ ret.fn.kind \in {"FnTuple", "FnVariantTuple"}
     /\ ret.args = ret.fn.args
     /\ Len(Frame(ret.pre)) >= ret.args) =>
        LET below == Len(ret.pre.stack) - ret.args
        IN /\ ret.res.err = "Ok"
           /\ ret.res.reason = NoReason
           /\ Len(vm.stack) = below + 1
           /\ SubSeq(vm.stack, 1, below) = SubSeq(ret.pre.stack, 1, below)
           /\ vm.stack[below + 1]
                 = Constructed(ret.fn, Top(ret.pre, ret.args))
           /\ vm.call_frames = ret.pre.call_frames
           /\ vm.stack_bottom = ret.pre.stack_bottom
           /\ vm.ip = ret.pre.ip

\* C29, its case: a variant tuple constructor of two arguments has made a
\* tuple of two different values above a value of the stack.
C29_PairAboveOne ==
    /\ ret.op = "call_with_vm"
    /\ ret.fn.kind = "FnVariantTuple"
    /\ ret.res.err = "Ok"
    /\ Len(vm.stack) = 2
    /\ vm.stack[1] \in StackValues
    /\ vm.stack[2].kind = "VariantTuple"
    /\ Len(vm.stack[2].items) = 2
    /\ vm.stack[2].items[1] # vm.stack[2].items[2]

(***************************************************************************)
(* Properties of the indexer (SpecIndex).                                  *)
(***************************************************************************)
\* The calling convention of a function, closure or async block that yields
\* (generator) and is declared async (is_async).
Convention(src) ==
    CASE ~src.generator /\ ~src.is_async -> "Immediate"
      [] src.generator /\ ~src.is_async -> "Generator"
      [] ~src.generator /\ src.is_async -> "Async"
      [] src.generator /\ src.is_async -> "Stream"

\* The entries of the build queue and of the index.
Queued == {indexer.queue[i] : i \in 1..Len(indexer.queue)}
Indexed == {indexer.indexed[i] : i \in 1..Len(indexer.indexed)}

\* C18: Indexer::call maps (generator, is_async) to (false, false) =
\* Immediate, (true, false) = Generator, (false, true) = Async, (true, true)
\* = Stream, and every function, closure and async block the indexer has
\* queued or indexed has the convention of this table for what it is in the
\* source: a generator if a yield stands in its own body, async if it is
\* declared so.
C18_CallingConvention ==
    /\ \A generator \in BOOLEAN, is_async \in BOOLEAN :
          Indexer_call(generator, is_async)
             = Convention(Flags(generator, is_async))
    /\ \A e \in Queued : e.call = Convention(e.src)
    /\ \A e \in Indexed : e.call = Convention(e.src)

\* C18, its case: a closure that yields is indexed as a Generator inside an
\* async function that is queued as Async.
C18_GeneratorInAsync ==
    /\ \E e \in Indexed : e.indexed = "Closure" /\ e.call = "Generator"
    /\ \E e \in Queued : e.call = "Async"

\* The fn declarations whose indexing has ended.
Ended == {walk.ended[i] : i \in 1..Len(walk.ended)}

\* The places of a fn declaration in the build queue and in the index.
QueuedAt(id) == {i \in 1..Len(indexer.queue) : indexer.queue[i].id = id}
IndexedAt(id) == {i \in 1..Len(indexer.indexed) : indexer.indexed[i].id = id}

\* The declaration has one build of this kind in the queue, its meta is
\* inserted and it is not indexed.
Built(id, build) ==
    /\ Cardinality(QueuedAt(id)) = 1
    /\ \A i \in QueuedAt(id) :
          /\ indexer.queue[i].build = build
          /\ indexer.queue[i].item \in indexer.meta
    /\ IndexedAt(id) = {}

\* What indexing a fn declaration does: one of three things, or a failure.
OneOfThree(id) ==
    LET d == walk.decls[id]
    IN IF id \notin Ended
       THEN QueuedAt(id) = {} /\ IndexedAt(id) = {}
       ELSE IF d.is_instance /\ d.in_impl
       THEN Built(id, "InstanceFunction")
       ELSE IF d.is_instance
       THEN /\ indexer.err = "InstanceFunctionOutsideImpl"
            /\ QueuedAt(id) = {}
            /\ IndexedAt(id) = {}
       ELSE IF d.outermost
       THEN Built(id, "Function")
       ELSE /\ QueuedAt(id) = {}
            /\ Cardinality(IndexedAt(id)) = 1
            /\ \A i \in IndexedAt(id) :
                  indexer.indexed[i].indexed = "Function"

\* C19: indexing a fn declaration does one of three things: an instance fn
\* inside an impl is queued as an InstanceFunction build with its meta, a
\* fn that is no instance fn and is indexed while the item path is empty is
\* queued as a Function build with its meta, every other fn is only
\* indexed; an instance fn outside of every impl fails with
\* InstanceFunctionOutsideImpl; and the builds are in the queue in the order
\* of the declarations.
C19_DeclarationOrder ==
    /\ \A id \in 1..Len(walk.decls) : OneOfThree(id)
    /\ \A i, j \in 1..Len(indexer.queue) :
          i < j => indexer.queue[i].id < indexer.queue[j].id

\* C19 as amended: the same, with the builds in the queue in the order in
\* which the indexing of their declarations ends: a fn declared inside
\* another comes before it, and two fns of which none is inside the other
\* are in the order of their declarations.
C19_CompletionOrder ==
    /\ \A id \in 1..Len(walk.decls) : OneOfThree(id)
    /\ \A i, j \in 1..Len(indexer.queue) :
          i < j =>
             LET a == indexer.queue[i].id
                 b == indexer.queue[j].id
             IN \/ b \in walk.decls[a].within
                \/ a < b /\ a \notin walk.decls[b].within

\* C19, its case: an instance fn of an impl block declared in the body of a
\* file level fn is in the queue before that fn, which was declared first.
C19_NestedQueuedFirst ==
    /\ Len(indexer.queue) = 2
    /\ indexer.queue[1].build = "InstanceFunction"
    /\ indexer.queue[2].build = "Function"
    /\ indexer.queue[2].id < indexer.queue[1].id

(***************************************************************************)
(* Properties of the imports (SpecImport).                                 *)
(***************************************************************************)
\* The use declaration ends in a wildcard and has no other.
WildcardUse(decl_use) ==
    /\ decl_use.rest # <<>>
    /\ decl_use.rest[Len(decl_use.rest)].kind = "Wildcard"
    /\ \A i \in 1..Len(decl_use.rest) - 1 : decl_use.rest[i].kind = "Ident"

\* The prefix is found in the context or in the unit.
Found(p) == contains_prefix(names.context, p) \/ contains_prefix(names.unit, p)

\* The child components of the prefix the context or the unit yields.
AllChildren(p) == Children(names.context, p) \cup Children(names.unit, p)

PlainUse(decl_use) ==
    \A i \in 1..Len(decl_use.rest) : decl_use.rest[i].kind = "Ident"

\* The path a use declaration without wildcard names.
UsePath(decl_use) == Pushed(<<decl_use.first>>, decl_use.rest)

\* C21: every use declaration without wildcard that Import::process
\* handles successfully binds the last component of its path as a short name
\* for the full path, a path of a single component included.
C21_PlainUseBinds ==
    (ret.op = "process" /\ PlainUse(ret.decl_use) /\ ret.res.err = "Ok") =>
        LET path == UsePath(ret.decl_use)
        IN lookup_import_by_name(unit, path[Len(path)]) = path

\* The result is ImportConflict { existing }.
Conflict(res, existing) ==
    /\ res.err = "ImportConflict"
    /\ res.existing = existing

\* The children of the prefix whose short name is bound before the import
\* is processed, and those both the context and the unit yield.
BoundChildren(p, pre) == AllChildren(p) \cap DOMAIN pre
TwiceYielded(p) == Children(names.context, p) \cap Children(names.unit, p)

C27_FailedImportUnchanged ==
    (ret.op = "new_import" /\ ret.res.err = "ImportConflict") =>
        /\ unit.imports = ret.pre
        /\ lookup_import_by_name(unit, ret.path[Len(ret.path)])
              = ret.res.existing

(***************************************************************************)
(* Properties of file modules (SpecMod).                                   *)
(***************************************************************************)
\* The last step indexed a `mod N;` declaration of a source whose path has
\* a parent.
FileModAt ==
    /\ ret.op = "handle_file_mod"
    /\ ret.source.has_path
    /\ ret.source.path # <<>>

\* The item of the declaration, and P.parent()/N/mod.rn and P.parent()/N.rn.
ModItem == Append(ret.pre.items, ret.name)
Dir == SubSeq(ret.source.path, 1, Len(ret.source.path) - 1)
NModRn == Dir \o <<ret.name, "mod.rn">>
NRn == Dir \o <<IF ret.name = "m" THEN "m.rn" ELSE "?">>

\* The declaration has given its item a source from this path, and nothing
\* else.
Loaded(path) ==
    /\ indexer.err = "Ok"
    /\ indexer.sources
          = Append(ret.pre.sources, [item |-> ModItem, path |-> path])
    /\ ModItem \in DOMAIN indexer.loaded

\* C23: for `mod N;` in a source at P the indexer loads P.parent()/N/mod.rn
\* if it is a file, else P.parent()/N.rn if it is a file; when neither is a
\* file it fails with ModNotFound and the item is neither marked as loaded
\* nor given a source.
C23_FileModCandidates ==
    FileModAt =>
        IF NModRn \notin ret.files /\ NRn \notin ret.files
        THEN /\ indexer.err = "ModNotFound"
             /\ indexer.loaded = ret.pre.loaded
             /\ indexer.sources = ret.pre.sources
        ELSE /\ indexer.err \in {"Ok", "ModAlreadyLoaded", "ModFileError"}
             /\ (ModItem \notin DOMAIN ret.pre.loaded /\ ret.readable)
                   => indexer.err = "Ok"
             /\ indexer.err = "Ok"
                   => Loaded(IF NModRn \in ret.files THEN NModRn ELSE NRn)

\* C23, its case: both files exist and the module is loaded from N/mod.rn.
C23_BothExist ==
    /\ FileModAt
    /\ NModRn \in ret.files
    /\ NRn \in ret.files
    /\ Loaded(NModRn)

\* C24: a `mod N;` declaration that resolves to a file and to an item that
\* is already in loaded fails with ModAlreadyLoaded and inserts no source;
\* no item has two sources.
C24_LoadedOnce ==
    /\ (/\ FileModAt
        /\ NModRn \in ret.files \/ NRn \in ret.files
        /\ ModItem \in DOMAIN ret.pre.loaded)
          => /\ indexer.err = "ModAlreadyLoaded"
             /\ indexer.sources = ret.pre.sources
    /\ \A i, j \in 1..Len(indexer.sources) :
          indexer.sources[i].item = indexer.sources[j].item => i = j

\* C24, its case: the second declaration of a module that has its source
\* failed.
C24_SecondDeclaration ==
    /\ FileModAt
    /\ indexer.err = "ModAlreadyLoaded"
    /\ \E i \in 1..Len(indexer.sources) : indexer.sources[i].item = ModItem

(***************************************************************************)
(* Properties of let expressions (SpecLet).                                *)
(***************************************************************************)
\* C30: when `let PAT = EXPR` is indexed, a name used in EXPR is resolved
\* against the scopes as they were before the bindings of PAT are declared:
\* every closure between the scope that held the name then and the let has
\* captured it, so `let x = x;` in a closure body captures the outer x.
C30_LetResolvesBefore ==
    (ret.op = "index_let" /\ ret.expr \in VarNames) =>
        LET at == Resolved(ret.pre, ret.expr)
        IN at # 0 =>
              \A i \in (at + 1)..Len(ret.pre) :
                 ret.pre[i].kind = "closure"
                    => \E j \in 1..Len(indexer.scopes[i].captures) :
                          indexer.scopes[i].captures[j] = ret.expr

(***************************************************************************)
(* Properties of serialization (SpecSerde).                                *)
(***************************************************************************)
\* C25: for every value built only from unit, booleans, chars, integers,
\* floats, strings (static or allocated), arrays and objects, serializing it
\* and deserializing the result succeeds and yields a value of the same
\* variant with equal content.
C25_RoundTrip ==
    ret.op = "deserialize" =>
        /\ ret.err = "Ok"
        /\ value.kind = ret.of.kind
        /\ value = ret.of

============================================================================
